---- MODULE Spec2Model ----
(***************************************************************************)
(* Image curation and adaptive scoring of timed_reference: the feedback    *)
(* scorer (services/image_scorer.py), the cache store                      *)
(* (services/memory_store.py), the recency tracker                         *)
(* (services/session_store.py), the query generator                        *)
(* (agent/subagents/query_generator.py), the reference filter              *)
(* (agent/subagents/image_evaluator.py) and the curation orchestrator      *)
(* (agent/tools/curator_tool.py).                                          *)
(***************************************************************************)
EXTENDS Integers, Sequences, FiniteSets, TLC

(***************************************************************************)
(* Bounds of the model.                                                    *)
(***************************************************************************)
\* feedback / shown events recorded in one run of the scorer
MaxFeedback == 11
\* longest candidate list handed to select_images
MaxCandidates == 3
\* largest count / target_count asked for
MaxCount == 3
\* longest image list handed to save_theme_results
MaxSaved == 2
\* largest times_used an image reaches
MaxUsed == 1
\* practice sessions created
MaxSessions == 2
\* session_images rows written
MaxSessionImages == 2
\* largest look-back window asked for, in days
MaxDays == 2
\* clock ticks in a day (a tick is 24 / TicksPerDay hours)
TicksPerDay == 4
\* days the clock runs for
MaxClockDays == 4
\* curate_reference_photos calls made
MaxCalls == 1

(***************************************************************************)
(* Scores are REAL columns and Python floats.  They are modelled as exact  *)
(* rationals <<numerator, denominator>> in lowest terms, denominator > 0.  *)
(***************************************************************************)
RECURSIVE GCD(_, _)
GCD(a, b) == IF b = 0 THEN a ELSE GCD(b, a % b)

Abs(x) == IF x < 0 THEN -x ELSE x

RNorm(n, d) == LET g == GCD(Abs(n), d) IN <<n \div g, d \div g>>

\* x * y, cancelling before multiplying so that only the result has to fit
RMul(x, y) ==
    LET g1 == GCD(Abs(x[1]), y[2])
        g2 == GCD(Abs(y[1]), x[2])
    IN <<(x[1] \div g1) * (y[1] \div g2), (x[2] \div g2) * (y[2] \div g1)>>

\* x + y over the least common denominator
RAdd(x, y) ==
    LET g == GCD(x[2], y[2])
    IN RNorm(x[1] * (y[2] \div g) + y[1] * (x[2] \div g), (x[2] \div g) * y[2])

\* a/b <= c/d for a, c >= 0 and b, d > 0, by comparing integer parts and then
\* the reciprocals of the fractional parts (no product is formed)
RECURSIVE FracLe(_, _, _, _)
FracLe(a, b, c, d) ==
    IF a \div b # c \div d THEN a \div b < c \div d
    ELSE IF a % b = 0 THEN TRUE
    ELSE IF c % d = 0 THEN FALSE
    ELSE FracLe(d, c % d, b, a % b)

RLe(x, y) == FracLe(x[1], x[2], y[1], y[2])

RLt(x, y) == ~RLe(y, x)

RMax(x, y) == IF RLe(x, y) THEN y ELSE x

RMin(x, y) == IF RLe(x, y) THEN x ELSE y

Zero == <<0, 1>>

\* Scoring constants
NEGATIVE_FEEDBACK_DECAY == <<4, 5>>
POSITIVE_FEEDBACK_BOOST == <<6, 5>>
FRESHNESS_BONUS == <<1, 10>>
MIN_SCORE == <<1, 10>>
\* the local max_score of record_positive_feedback
MAX_SCORE == <<2, 1>>
\* the score of a pair without a row, and the value reset_scores writes
DEFAULT_SCORE == <<1, 1>>

(***************************************************************************)
(* Themes.  A theme string is modelled by its lower-case, trimmed text     *)
(* (core) and by what lower() and strip() remove: upper-case letters and   *)
(* surrounding blanks.                                                     *)
(***************************************************************************)
ThemeStr(c, u, p) == [core |-> c, upper |-> u, pad |-> p]

Lower(t) == [t EXCEPT !.upper = FALSE]

Strip(t) == [t EXCEPT !.pad = FALSE]

\* theme.lower().strip()
Normalize(t) == Strip(Lower(t))

\* "hands", "  Hands " and "robots"
RawThemes ==
    { ThemeStr("hands", FALSE, FALSE), ThemeStr("hands", TRUE, TRUE),
      ThemeStr("robots", FALSE, FALSE) }

NormThemes == { Normalize(t) : t \in RawThemes }

\* Pexels image ids
Ids == {1, 2, 3}

\* a missing dict key, SQL NULL, Python None: an integer that no id, position
\* or counter takes
None == 0 - 1

Max(a, b) == IF a >= b THEN a ELSE b

Min(a, b) == IF a <= b THEN a ELSE b

(***************************************************************************)
(* State.  The six tables live in one SQLite file; the in-memory           *)
(* dictionaries are module globals of the Python process.                  *)
(***************************************************************************)
VARIABLES
    image_theme_scores, \* (pexels_id, theme) -> [score, times_shown]
    theme_queries,      \* theme -> queries (JSON text)
    curated_images,     \* pexels_id -> [alt, times_used, last_used]
    theme_images,       \* (theme, pexels_id) -> position
    uncommitted,        \* the store's connection holds writes it has not committed
    practice_sessions,  \* id -> [started_at, instant]
    session_images,     \* rows [session_id, pexels_id, position]
    now,                \* the wall clock, in ticks since the epoch (UTC)
    tz,                 \* offset of local time from UTC, in ticks
    session_config,     \* _session_config of session_control_tool
    query_cache,        \* _query_cache of query_generator
    evaluation_cache,   \* _evaluation_cache of image_evaluator
    cur,                \* the running curate_reference_photos call
    sel,                \* the select_images call under test
    last,               \* the last store / tracker call and what it returned
    gui                 \* the GUI thread: the store call it is in, or the
                        \* practice widget it runs

vars ==
    << image_theme_scores, theme_queries, curated_images, theme_images,
       uncommitted, practice_sessions, session_images, now, tz, session_config,
       query_cache, evaluation_cache, cur, sel, last, gui >>

store_vars == << theme_queries, curated_images, theme_images, uncommitted >>

tracker_vars == << practice_sessions, session_images >>

clock_vars == << now, tz >>

memo_vars == << session_config, query_cache, evaluation_cache >>

\* the empty function (an empty table, an empty dict)
Empty == [x \in {} |-> None]

\* theme_queries, curated_images and theme_images, all empty
EmptyStore == [queries |-> Empty, images |-> Empty, links |-> Empty]

\* f with key k set to v (an upsert of one row, d[k] = v)
Put(f, k, v) == [x \in (DOMAIN f) \cup {k} |-> IF x = k THEN v ELSE f[x]]

(***************************************************************************)
(* ImageScorer                                                             *)
(***************************************************************************)
ScoreKeys == Ids \X NormThemes

RECURSIVE SumShown(_, _)
SumShown(tbl, keys) ==
    IF keys = {} THEN 0
    ELSE LET k == CHOOSE x \in keys : TRUE
         IN tbl[k].times_shown + SumShown(tbl, keys \ {k})

\* number of feedback and shown events recorded so far
TotalShown == SumShown(image_theme_scores, DOMAIN image_theme_scores)

\* get_score
get_score(pexels_id, theme) ==
    LET k == <<pexels_id, Normalize(theme)>>
    IN IF k \in DOMAIN image_theme_scores
       THEN image_theme_scores[k].score
       ELSE DEFAULT_SCORE

\* new_score of record_negative_feedback for a stored score
NegativeScore(s) == RMax(MIN_SCORE, RMul(s, NEGATIVE_FEEDBACK_DECAY))

\* a boost that forgets the cap
PositiveScoreNoCap(s) == RMul(s, POSITIVE_FEEDBACK_BOOST)

\* new_score of record_positive_feedback for a stored score
PositiveScore(s) == RMin(MAX_SCORE, RMul(s, POSITIVE_FEEDBACK_BOOST))

\* the score an existing row gets from one call
UpdatedScore(kind, s) ==
    CASE kind = "negative" -> NegativeScore(s)
      [] kind = "positive" -> PositiveScore(s)
      [] kind = "shown" -> s

\* an insert that seeds every new row with the default score
SeedScoreDefault(kind) == DEFAULT_SCORE

\* the score a new row is inserted with
SeedScore(kind) ==
    CASE kind = "negative" -> NEGATIVE_FEEDBACK_DECAY
      [] kind = "positive" -> POSITIVE_FEEDBACK_BOOST
      [] kind = "shown" -> DEFAULT_SCORE

\* an UPDATE whose WHERE clause names the image only: every row of the image
\* is written, whatever its theme
FeedbackRowAnyTheme(tbl, k, kind) ==
    LET hit(x) == x[1] = k[1]
    IN [x \in (DOMAIN tbl) \cup {k} |->
          IF x \in DOMAIN tbl /\ hit(x)
          THEN [score |-> UpdatedScore(kind, tbl[x].score),
                times_shown |-> tbl[x].times_shown + 1]
          ELSE IF x = k THEN [score |-> SeedScore(kind), times_shown |-> 1]
          ELSE tbl[x]]

\* the table after one call on the pair k: UPDATE of the row when it exists,
\* INSERT otherwise
FeedbackRow(tbl, k, kind) ==
    IF k \in DOMAIN tbl
    THEN Put(tbl, k, [score |-> UpdatedScore(kind, tbl[k].score),
                      times_shown |-> tbl[k].times_shown + 1])
    ELSE Put(tbl, k, [score |-> SeedScore(kind), times_shown |-> 1])

record_negative_feedback(pexels_id, theme) ==
    /\ TotalShown < MaxFeedback
    /\ image_theme_scores' =
           FeedbackRow(image_theme_scores, <<pexels_id, Normalize(theme)>>, "negative")

record_positive_feedback(pexels_id, theme) ==
    /\ TotalShown < MaxFeedback
    /\ image_theme_scores' =
           FeedbackRow(image_theme_scores, <<pexels_id, Normalize(theme)>>, "positive")

record_shown(pexels_id, theme) ==
    /\ TotalShown < MaxFeedback
    /\ image_theme_scores' =
           FeedbackRow(image_theme_scores, <<pexels_id, Normalize(theme)>>, "shown")

reset_scores(theme) ==
    image_theme_scores' =
        [k \in DOMAIN image_theme_scores |->
            IF k[2] = Normalize(theme)
            THEN [image_theme_scores[k] EXCEPT !.score = DEFAULT_SCORE]
            ELSE image_theme_scores[k]]

(***************************************************************************)
(* Initial state: empty tables, empty dictionaries, no call running.       *)
(***************************************************************************)
IdleCall == [pc |-> "idle"]

NoSelect == [pc |-> "none"]

\* the empty string
NoTheme == ThemeStr("", FALSE, FALSE)

NoCall == [op |-> "none", raised |-> FALSE]

\* the GUI thread is in no store call; calls counts the calls it has made
IdleGui ==
    [pc |-> "idle", calls |-> 0, pexels_id |-> None, theme |-> NoTheme,
     kind |-> "none", found |-> FALSE, score |-> Zero, raised |-> FALSE]

InitConfig ==
    [duration_seconds |-> 60, image_count |-> 10, images |-> <<>>,
     preview_ready |-> FALSE, session_started |-> FALSE, theme |-> NoTheme]

Init ==
    /\ image_theme_scores = Empty
    /\ theme_queries = Empty
    /\ curated_images = Empty
    /\ theme_images = Empty
    /\ uncommitted = FALSE
    /\ practice_sessions = <<>>
    /\ session_images = <<>>
    /\ now = 0
    /\ tz = 0
    /\ session_config = InitConfig
    /\ query_cache = Empty
    /\ evaluation_cache = Empty
    /\ cur = IdleCall
    /\ sel = NoSelect
    /\ last = NoCall
    /\ gui = IdleGui

(***************************************************************************)
(* The scorer on its own: any sequence of feedback, shown and reset calls. *)
(***************************************************************************)
others_scorer ==
    << theme_queries, curated_images, theme_images, uncommitted, practice_sessions,
       session_images, now, tz, session_config, query_cache,
       evaluation_cache, cur, sel, last, gui >>

\* the (image id, theme) arguments of the feedback calls: two images of one
\* theme, one image under two themes, one theme in two spellings
FeedbackInputs ==
    { <<1, ThemeStr("hands", FALSE, FALSE)>>, <<1, ThemeStr("hands", TRUE, TRUE)>>,
      <<2, ThemeStr("hands", FALSE, FALSE)>>, <<1, ThemeStr("robots", FALSE, FALSE)>> }

PositiveFeedback ==
    \E a \in FeedbackInputs :
        record_positive_feedback(a[1], a[2]) /\ UNCHANGED others_scorer

NegativeFeedback ==
    \E a \in FeedbackInputs :
        record_negative_feedback(a[1], a[2]) /\ UNCHANGED others_scorer

Shown ==
    \E a \in FeedbackInputs :
        record_shown(a[1], a[2]) /\ UNCHANGED others_scorer

ResetScores ==
    \E t \in RawThemes : reset_scores(t) /\ UNCHANGED others_scorer

NextScorer == PositiveFeedback \/ NegativeFeedback \/ Shown \/ ResetScores

SpecScorer == Init /\ [][NextScorer]_vars

InBounds(s) == RLe(MIN_SCORE, s) /\ RLe(s, MAX_SCORE)

\* C1: every stored score, and every get_score result, lies in
\* [MIN_SCORE, MAX_SCORE] after any sequence of feedback, shown and reset calls.
ScoreBounds ==
    /\ \A k \in DOMAIN image_theme_scores : InBounds(image_theme_scores[k].score)
    /\ \A i \in Ids, t \in RawThemes : InBounds(get_score(i, t))

\* C1 happens: eleven decays in a row have driven a score onto the floor
ScoreOnFloor ==
    \E k \in DOMAIN image_theme_scores :
        /\ image_theme_scores[k].score = MIN_SCORE
        /\ image_theme_scores[k].times_shown >= 11

\* an alt text: its first 100 characters and the characters after them
Alt(h, r) == [head |-> h, rest |-> r]

\* alt_text[:100]
AltCut(a) == Alt(a.head, "")

\* "hand"
Plain == Alt("hand", "")

\* ""
NoAlt == Alt("", "")

(***************************************************************************)
(* Image dicts.  A missing key is None.  ok says that the dict carries the *)
(* 'url' and 'thumbnail' keys save_theme_results indexes.                  *)
(***************************************************************************)
Img(p, i, a, u, k) ==
    [pexels_id |-> p, id |-> i, alt |-> a, times_used |-> u, ok |-> k]

\* img.get('pexels_id', img.get('id'))
ImgId(img) == IF img.pexels_id # None THEN img.pexels_id ELSE img.id

\* img.get('times_used', 0)
ImgTimesUsed(img) == IF img.times_used # None THEN img.times_used ELSE 0

\* a pop that removes nothing
PopNothing(seq, idx) == seq

\* seq without its idx-th element (list.pop(idx))
Pop(seq, idx) == SubSeq(seq, 1, idx - 1) \o SubSeq(seq, idx + 1, Len(seq))

\* a slice that forgets its bound
SliceWhole(seq, n) == seq

\* seq[:n] for n >= 0
Slice(seq, n) == SubSeq(seq, 1, Min(n, Len(seq)))

Range(seq) == { seq[i] : i \in 1..Len(seq) }

IdsOf(seq) == [i \in 1..Len(seq) |-> ImgId(seq[i])]

RECURSIVE RSum(_)
RSum(ws) == IF ws = <<>> THEN Zero ELSE RAdd(Head(ws), RSum(Tail(ws)))

\* cumulative weight after the first i weights
Cumulative(ws, i) == RSum(SubSeq(ws, 1, i))

\* a filter that lets everything through
CandidatesUnfiltered(available, exclude_ids) == available

\* the candidates that pass the exclusion filter of select_images
Candidates(available, exclude_ids) ==
    LET keep(img) == ImgId(img) \notin exclude_ids
    IN SelectSeq(available, keep)

\* a weight of zero for every candidate
WeightNothing(img, theme) == Zero

\* a weight without the bonus for times_used = 0
WeightShownBonusOnly(img, theme) ==
    LET k == <<ImgId(img), Normalize(theme)>>
        stats == IF k \in DOMAIN image_theme_scores
                 THEN image_theme_scores[k]
                 ELSE [score |-> DEFAULT_SCORE, times_shown |-> 0]
        w1 == IF stats.times_shown = 0
              THEN RAdd(stats.score, FRESHNESS_BONUS) ELSE stats.score
    IN RMax(MIN_SCORE, w1)

\* the weight select_images gives one candidate
Weight(img, theme) ==
    LET k == <<ImgId(img), Normalize(theme)>>
        stats == IF k \in DOMAIN image_theme_scores
                 THEN image_theme_scores[k]
                 ELSE [score |-> DEFAULT_SCORE, times_shown |-> 0]
        w1 == IF stats.times_shown = 0
              THEN RAdd(stats.score, FRESHNESS_BONUS) ELSE stats.score
        w2 == IF ImgTimesUsed(img) = 0 THEN RAdd(w1, FRESHNESS_BONUS) ELSE w1
    IN RMax(MIN_SCORE, w2)

Weights(cands, theme) == [i \in 1..Len(cands) |-> Weight(cands[i], theme)]

\* values of r = random.uniform(0, total_weight) that tell the draws apart:
\* both ends, every cumulative weight and the middle of every interval
DrawValues(ws) ==
    {Zero} \cup { Cumulative(ws, i) : i \in 1..Len(ws) }
           \cup { RMul(<<1, 2>>, RAdd(Cumulative(ws, i - 1), Cumulative(ws, i))) :
                    i \in 1..Len(ws) }

\* a scan that runs to the end of the list
PickLast(ws, r) == Len(ws)

\* the index the cumulative scan stops at for a draw r (idx = 0 when it never
\* stops); indexes count from 1 here
PickIndex(ws, r) ==
    LET hits == { i \in 1..Len(ws) : RLe(r, Cumulative(ws, i)) }
    IN IF hits = {} THEN 1 ELSE CHOOSE i \in hits : \A j \in hits : i <= j

\* the indexes one draw can select
DrawIndexes(ws) ==
    IF RLe(RSum(ws), Zero)
    THEN 1..Len(ws)
    ELSE { PickIndex(ws, r) : r \in DrawValues(ws) }

\* len(range(n))
RangeLen(n) == IF n < 0 THEN 0 ELSE n

\* the lists the selection loop can build in n more rounds
RECURSIVE DrawLoop(_, _, _)
DrawLoop(cands, ws, n) ==
    IF n = 0 \/ cands = <<>> THEN { <<>> }
    ELSE UNION { { <<cands[idx]>> \o rest :
                     rest \in DrawLoop(Pop(cands, idx), Pop(ws, idx), n - 1) } :
                 idx \in DrawIndexes(ws) }

\* a select_count that ignores count
SelectCountAll(count, cands) == Len(cands)

\* select_count = min(count, len(remaining_candidates))
SelectCount(count, cands) == Min(count, Len(cands))

\* the lists select_images can return
select_images(available, theme, count, exclude_ids) ==
    LET cands == Candidates(available, exclude_ids)
    IN IF available = <<>> \/ cands = <<>> THEN { <<>> }
       ELSE DrawLoop(cands, Weights(cands, theme),
                     RangeLen(SelectCount(count, cands)))

(***************************************************************************)
(* select_images on its own: the inputs are drawn in the initial state,    *)
(* the one step is the call.                                               *)
(***************************************************************************)
\* {'pexels_id': 1}, {'pexels_id': 2, 'times_used': 1}, {'id': 2} and
\* {'pexels_id': 3, 'id': 3}
SelectImgs ==
    { Img(1, None, Plain, 0, TRUE), Img(2, None, Plain, 1, TRUE),
      Img(None, 2, Plain, None, TRUE), Img(3, 3, Plain, None, TRUE) }

SeqsUpTo(S, n) == UNION { [1..m -> S] : m \in 0..n }

\* score tables the feedback calls produce
ScoreTables ==
    LET hands == ThemeStr("hands", FALSE, FALSE)
        t1 == FeedbackRow(Empty, <<1, hands>>, "negative")
        t2 == FeedbackRow(t1, <<2, hands>>, "positive")
    IN { Empty, FeedbackRow(t2, <<2, hands>>, "positive") }

SelectThemes == { ThemeStr("hands", TRUE, TRUE), ThemeStr("robots", FALSE, FALSE) }

InitSelect ==
    /\ image_theme_scores \in ScoreTables
    /\ theme_queries = Empty
    /\ curated_images = Empty
    /\ theme_images = Empty
    /\ uncommitted = FALSE
    /\ practice_sessions = <<>>
    /\ session_images = <<>>
    /\ now = 0
    /\ tz = 0
    /\ session_config = InitConfig
    /\ query_cache = Empty
    /\ evaluation_cache = Empty
    /\ cur = IdleCall
    /\ last = NoCall
    /\ gui = IdleGui
    /\ \E av \in SeqsUpTo(SelectImgs, MaxCandidates), th \in SelectThemes,
          c \in (-1)..MaxCount, ex \in SUBSET Ids :
          sel = [pc |-> "call", available |-> av, theme |-> th, count |-> c,
                 exclude_ids |-> ex, result |-> <<>>]

SelectImages ==
    /\ sel.pc = "call"
    /\ \E res \in select_images(sel.available, sel.theme, sel.count, sel.exclude_ids) :
          sel' = [sel EXCEPT !.pc = "done", !.result = res]
    /\ UNCHANGED << image_theme_scores, store_vars, tracker_vars, clock_vars,
                    memo_vars, cur, last, gui >>

NextSelect == SelectImages

SpecSelect == InitSelect /\ [][NextSelect]_vars

(***************************************************************************)
(* select_images round by round: the filter and the weights, then one      *)
(* step per iteration of the selection loop.  The frame keeps the draw r,  *)
(* the index it selected and whether the uniform fallback made the choice. *)
(***************************************************************************)
InitDraw ==
    /\ image_theme_scores \in ScoreTables
    /\ theme_queries = Empty
    /\ curated_images = Empty
    /\ theme_images = Empty
    /\ uncommitted = FALSE
    /\ practice_sessions = <<>>
    /\ session_images = <<>>
    /\ now = 0
    /\ tz = 0
    /\ session_config = InitConfig
    /\ query_cache = Empty
    /\ evaluation_cache = Empty
    /\ cur = IdleCall
    /\ last = NoCall
    /\ gui = IdleGui
    /\ \E av \in SeqsUpTo(SelectImgs, MaxCandidates), th \in SelectThemes,
          c \in (-1)..MaxCount, ex \in SUBSET Ids :
          sel = [pc |-> "call", available |-> av, theme |-> th, count |-> c,
                 exclude_ids |-> ex, result |-> <<>>,
                 remaining_candidates |-> <<>>, remaining_weights |-> <<>>,
                 rounds |-> 0, r |-> Zero, idx |-> 0, uniform |-> FALSE]

others_select ==
    << image_theme_scores, store_vars, tracker_vars, clock_vars, memo_vars, cur,
       last, gui >>

\* lines 186-236: the early returns, the candidates, their weights and
\* select_count
DrawBegin ==
    /\ sel.pc = "call"
    /\ LET cands == Candidates(sel.available, sel.exclude_ids)
       IN IF sel.available = <<>> \/ cands = <<>>
          THEN sel' = [sel EXCEPT !.pc = "done"]
          ELSE sel' = [sel EXCEPT !.pc = "draw",
                                  !.remaining_candidates = cands,
                                  !.remaining_weights = Weights(cands, sel.theme),
                                  !.rounds = RangeLen(SelectCount(sel.count, cands))]
    /\ UNCHANGED others_select

\* the choice of idx in one iteration, lines 242-257
DrawChoices(ws) ==
    IF RLe(RSum(ws), Zero)
    THEN { [r |-> Zero, idx |-> i, uniform |-> TRUE] : i \in 1..Len(ws) }
    ELSE { [r |-> r, idx |-> PickIndex(ws, r), uniform |-> FALSE] : r \in DrawValues(ws) }

\* one iteration of the loop, lines 238-261
DrawOne ==
    /\ sel.pc = "draw"
    /\ sel.rounds > 0
    /\ sel.remaining_candidates # <<>>
    /\ \E c \in DrawChoices(sel.remaining_weights) :
          sel' = [sel EXCEPT
                    !.result = Append(@, sel.remaining_candidates[c.idx]),
                    !.remaining_candidates = Pop(@, c.idx),
                    !.remaining_weights = Pop(@, c.idx),
                    !.rounds = @ - 1,
                    !.r = c.r, !.idx = c.idx, !.uniform = c.uniform]
    /\ UNCHANGED others_select

\* the loop ends: return selected
DrawReturn ==
    /\ sel.pc = "draw"
    /\ sel.rounds = 0 \/ sel.remaining_candidates = <<>>
    /\ sel' = [sel EXCEPT !.pc = "done"]
    /\ UNCHANGED others_select

NextDraw == DrawBegin \/ DrawOne \/ DrawReturn

SpecDraw == InitDraw /\ [][NextDraw]_vars

\* the rounds return what select_images returns
DrawAgrees ==
    sel.pc = "done" =>
        sel.result \in select_images(sel.available, sel.theme, sel.count, sel.exclude_ids)

\* number of entries of the input list whose id is not excluded
NotExcluded ==
    Cardinality({ i \in 1..Len(sel.available) :
                    ImgId(sel.available[i]) \notin sel.exclude_ids })

Distinct(seq) == \A i, j \in 1..Len(seq) : seq[i] = seq[j] => i = j

\* C2 as stated: at most min(count, non-excluded candidates) items are
\* returned, and exactly that many when count >= 0.
SelectCardinalityAsClaimed ==
    sel.pc = "done" =>
        /\ Len(sel.result) <= Min(sel.count, NotExcluded)
        /\ sel.count >= 0 => Len(sel.result) = Min(sel.count, NotExcluded)

\* C2 amended: select_images returns exactly min(count, non-excluded
\* candidates) items when count >= 0 and the empty list when count < 0.
SelectCardinality ==
    sel.pc = "done" =>
        Len(sel.result) = Max(0, Min(sel.count, NotExcluded))

\* C2 happens: count exceeds the non-excluded pool, which is returned whole
SelectExhaustsPool ==
    /\ sel.pc = "done"
    /\ sel.exclude_ids # {}
    /\ NotExcluded >= 2
    /\ NotExcluded < Len(sel.available)
    /\ sel.count > NotExcluded
    /\ Len(sel.result) = NotExcluded

\* C3 as stated: no two returned items have the same image id, whatever the
\* input list.
SelectNoRepeatAsClaimed ==
    sel.pc = "done" => Distinct(IdsOf(sel.result))

\* C3 amended: when the ids of the non-excluded entries of the input list are
\* pairwise distinct, no two returned items have the same image id.
SelectNoRepeat ==
    (sel.pc = "done" /\ Distinct(IdsOf(Candidates(sel.available, sel.exclude_ids))))
        => Distinct(IdsOf(sel.result))

\* C3 happens: several items are drawn from a list of distinct ids
SelectDrawsSeveral ==
    /\ sel.pc = "done"
    /\ Distinct(IdsOf(sel.available))
    /\ Len(sel.available) = 3
    /\ Len(sel.result) = 3

\* C4: no returned item has an id in exclude_ids.
SelectExcludes ==
    sel.pc = "done" =>
        \A i \in 1..Len(sel.result) : ImgId(sel.result[i]) \notin sel.exclude_ids

\* C4 happens: the list holds excluded and other entries, under both keys, and
\* something is returned
SelectSkipsExcluded ==
    /\ sel.pc = "done"
    /\ \E i, j \in 1..Len(sel.available) :
          /\ sel.available[i].pexels_id \in sel.exclude_ids
          /\ sel.available[j].pexels_id = None
          /\ sel.available[j].id \in sel.exclude_ids
    /\ sel.result # <<>>

(***************************************************************************)
(* MemoryStore.  The store operations are functions of the three tables,   *)
(* st = [queries, images, links]: theme_queries, curated_images and        *)
(* theme_images as the store's connection sees them.                       *)
(***************************************************************************)
StoreNow == [queries |-> theme_queries, images |-> curated_images, links |-> theme_images]

\* a search query: its text and its length in characters
Query(s, n) == [text |-> s, len |-> n, upper |-> FALSE, pad |-> FALSE]

\* json.dumps of a list of strings and json.loads of that text
JsonDumps(queries) == <<"json", queries>>

JsonLoads(text) == text[2]

\* a timestamp string: its date part, the character after it, its time part
Stamp(d, c, t) == [date |-> d, sep |-> c, time |-> t]

\* SQLite's CURRENT_TIMESTAMP: 'YYYY-MM-DD HH:MM:SS' in UTC
CurrentTimestamp(instant) ==
    Stamp(instant \div TicksPerDay, " ", instant % TicksPerDay)

\* a NULL timestamp column
NullStamp == Stamp(None, "", None)

\* an upsert whose conflict branch replaces the whole row
UpsertImageReplace(images, img, theme_lower) ==
    Put(images, img.pexels_id,
        [alt |-> img.alt, times_used |-> 0, last_used |-> NullStamp])

\* INSERT INTO curated_images ... ON CONFLICT (pexels_id) DO UPDATE SET alt,
\* url, thumbnail; a new row takes the column defaults times_used 0 and
\* last_used NULL
UpsertImage(images, img, theme_lower) ==
    IF img.pexels_id \in DOMAIN images
    THEN Put(images, img.pexels_id, [images[img.pexels_id] EXCEPT !.alt = img.alt])
    ELSE Put(images, img.pexels_id,
             [alt |-> img.alt, times_used |-> 0, last_used |-> NullStamp])

\* a mapping insert that keeps the old position on conflict
UpsertLinkKeep(links, theme_lower, pexels_id, position) ==
    IF <<theme_lower, pexels_id>> \in DOMAIN links THEN links
    ELSE Put(links, <<theme_lower, pexels_id>>, position)

\* INSERT INTO theme_images ... ON CONFLICT (theme, pexels_id) DO UPDATE
UpsertLink(links, theme_lower, pexels_id, position) ==
    Put(links, <<theme_lower, pexels_id>>, position)

\* the loop of save_theme_results from the given position on; img["pexels_id"],
\* img["url"] or img["thumbnail"] of a dict without the key raises KeyError
RECURSIVE SaveImages(_, _, _, _)
SaveImages(st, theme_lower, images, position) ==
    IF images = <<>> THEN [st |-> st, raised |-> FALSE]
    ELSE LET img == Head(images)
         IN IF img.pexels_id = None \/ ~img.ok
            THEN [st |-> st, raised |-> TRUE]
            ELSE SaveImages(
                     [st EXCEPT
                        !.images = UpsertImage(st.images, img, theme_lower),
                        !.links = UpsertLink(st.links, theme_lower, img.pexels_id, position)],
                     theme_lower, Tail(images), position + 1)

\* save_theme_results up to its commit: the tables as the connection sees
\* them afterwards, and whether the call raised before the commit
SaveThemeResults(st, theme, queries, images) ==
    LET theme_lower == Normalize(theme)
    IN SaveImages([st EXCEPT !.queries = Put(st.queries, theme_lower, JsonDumps(queries))],
                  theme_lower, images, 0)

\* the rows of the JOIN of curated_images and theme_images for a theme
ThemeIds(st, theme_lower) ==
    { p \in DOMAIN st.images : <<theme_lower, p>> \in DOMAIN st.links }

\* the orders ORDER BY ti.position can return the rows in
Orderings(st, theme_lower) ==
    LET S == ThemeIds(st, theme_lower)
    IN { o \in [1..Cardinality(S) -> S] :
           /\ \A i, j \in 1..Cardinality(S) : o[i] = o[j] => i = j
           /\ \A i, j \in 1..Cardinality(S) :
                 i < j => st.links[<<theme_lower, o[i]>>] <= st.links[<<theme_lower, o[j]>>] }

NotFound == [found |-> FALSE, queries |-> <<>>, images |-> <<>>]

\* a get_cached_theme that returns the record whenever the query row exists
GetCachedThemeNoImageCheck(st, theme) ==
    LET theme_lower == Normalize(theme)
    IN IF theme_lower \notin DOMAIN st.queries THEN { NotFound }
       ELSE { [found |-> TRUE, queries |-> JsonLoads(st.queries[theme_lower]),
               images |-> [i \in 1..Len(o) |->
                              Img(o[i], None, st.images[o[i]].alt, None, TRUE)]] :
              o \in Orderings(st, theme_lower) }

\* what get_cached_theme can return (NotFound stands for None)
GetCachedTheme(st, theme) ==
    LET theme_lower == Normalize(theme)
    IN IF theme_lower \notin DOMAIN st.queries THEN { NotFound }
       ELSE IF ThemeIds(st, theme_lower) = {} THEN { NotFound }
       ELSE { [found |-> TRUE, queries |-> JsonLoads(st.queries[theme_lower]),
               images |-> [i \in 1..Len(o) |->
                              Img(o[i], None, st.images[o[i]].alt, None, TRUE)]] :
              o \in Orderings(st, theme_lower) }

\* what get_cached_images_for_theme can return
GetCachedImagesForTheme(st, theme) ==
    { [i \in 1..Len(o) |->
          Img(o[i], None, st.images[o[i]].alt, st.images[o[i]].times_used, TRUE)] :
      o \in Orderings(st, Normalize(theme)) }

\* update_image_usage up to its commit
UpdateImageUsage(st, pexels_id) ==
    IF pexels_id \in DOMAIN st.images
    THEN [st EXCEPT !.images[pexels_id].times_used = @ + 1,
                    !.images[pexels_id].last_used = CurrentTimestamp(now)]
    ELSE st

\* the tables become st; done says whether the call reached its commit, which
\* commits whatever the connection has written so far
WriteStore(st, done) ==
    /\ theme_queries' = st.queries
    /\ curated_images' = st.images
    /\ theme_images' = st.links
    /\ uncommitted' = ~done

save_theme_results(theme, queries, images) ==
    LET r == SaveThemeResults(StoreNow, theme, queries, images)
    IN /\ WriteStore(r.st, ~r.raised)
       /\ last' = [op |-> "save", raised |-> r.raised,
                   ids |-> { images[i].pexels_id : i \in 1..Len(images) }
                              \cap DOMAIN r.st.images]

get_cached_theme(theme) ==
    /\ \E r \in GetCachedTheme(StoreNow, theme) :
          last' = [op |-> "get", raised |-> ~r.found]
    /\ UNCHANGED store_vars

update_image_usage(pexels_id) ==
    /\ pexels_id \in DOMAIN curated_images => curated_images[pexels_id].times_used < MaxUsed
    /\ WriteStore(UpdateImageUsage(StoreNow, pexels_id), TRUE)
    /\ last' = [op |-> "usage", raised |-> FALSE]

(***************************************************************************)
(* The cache store on its own: any sequence of save_theme_results,         *)
(* get_cached_theme and update_image_usage calls.                          *)
(***************************************************************************)
\* image dicts handed to save_theme_results: two images, a second description
\* of the first, and a dict without 'url'
SaveImgs ==
    { Img(1, None, Plain, 0, TRUE), Img(1, None, NoAlt, 0, TRUE),
      Img(2, None, Plain, 0, TRUE), Img(2, None, Plain, 0, FALSE) }

\* themes handed to save_theme_results
SaveThemes == { ThemeStr("hands", TRUE, TRUE), ThemeStr("robots", FALSE, FALSE) }

QueryLists == { <<Query("hand", 4)>>, <<Query("hand", 4), Query("fist", 4)>> }

others_store ==
    << image_theme_scores, practice_sessions, session_images, now, tz,
       session_config, query_cache, evaluation_cache, cur, sel, gui >>

Save ==
    \E t \in SaveThemes, q \in QueryLists, imgs \in SeqsUpTo(SaveImgs, MaxSaved) :
        save_theme_results(t, q, imgs) /\ UNCHANGED others_store

Get == \E t \in RawThemes : get_cached_theme(t) /\ UNCHANGED others_store

Usage == \E i \in Ids : update_image_usage(i) /\ UNCHANGED others_store

\* image dicts curate_and_save builds from provider photos: every key is set
FoundImgs == { img \in SaveImgs : img.ok }

\* curate_and_save: both loops run over queries[:4], so an empty list finds
\* nothing; what was found, cut to the cap, is saved with queries[:4], and an
\* exception of the save is swallowed
curate_and_save(theme, queries) ==
    \E final_images \in IF queries = <<>> THEN { <<>> }
                        ELSE SeqsUpTo(FoundImgs, MaxSaved) :
        save_theme_results(theme, Slice(queries, 4), final_images)

CurateAndSave ==
    \E t \in SaveThemes, q \in QueryLists \cup { <<>> } :
        curate_and_save(t, q) /\ UNCHANGED others_store

NextStore == Save \/ Get \/ Usage

SpecStore == Init /\ [][NextStore]_vars

\* the store as the curator agent's tool drives it
NextAgentTool == CurateAndSave \/ Get \/ Usage

SpecAgentTool == Init /\ [][NextAgentTool]_vars

WellFormed(imgs) == \A i \in 1..Len(imgs) : imgs[i].ok /\ imgs[i].pexels_id # None

\* C5 as stated: in every reachable store state, save_theme_results(T, Q, I)
\* with non-empty I of distinct ids followed by get_cached_theme(T) returns
\* queries Q and images whose ids are exactly those of I, in the order of I.
RoundTripAsClaimed ==
    \A t \in SaveThemes, q \in QueryLists, imgs \in SeqsUpTo(SaveImgs, MaxSaved) :
        (imgs # <<>> /\ WellFormed(imgs) /\ Distinct(IdsOf(imgs))) =>
            \A g \in GetCachedTheme(SaveThemeResults(StoreNow, t, q, imgs).st, t) :
                g.found /\ g.queries = q /\ IdsOf(g.images) = IdsOf(imgs)

\* C5 amended: the call pair returns queries Q and images whose ids include
\* those of I; when every image the theme had before is among I, the ids are
\* exactly those of I, in the order of I.
RoundTrip ==
    \A t \in SaveThemes, q \in QueryLists, imgs \in SeqsUpTo(SaveImgs, MaxSaved) :
        (imgs # <<>> /\ WellFormed(imgs) /\ Distinct(IdsOf(imgs))) =>
            \A g \in GetCachedTheme(SaveThemeResults(StoreNow, t, q, imgs).st, t) :
                /\ g.found
                /\ g.queries = q
                /\ Range(IdsOf(imgs)) \subseteq Range(IdsOf(g.images))
                /\ ThemeIds(StoreNow, Normalize(t)) \subseteq Range(IdsOf(imgs))
                      => IdsOf(g.images) = IdsOf(imgs)

\* C5 happens: a theme was saved again after one of its images had been used,
\* and holds image 2 at position 0 and image 1 at position 1 now
ResavedTheme ==
    /\ last.op = "save"
    /\ ~last.raised
    /\ \E t \in NormThemes :
          /\ {<<t, 1>>, <<t, 2>>} \subseteq DOMAIN theme_images
          /\ theme_images[<<t, 2>>] = 0
          /\ theme_images[<<t, 1>>] = 1
          /\ curated_images[1].times_used > 0
          /\ \A g \in GetCachedTheme(StoreNow, t) : IdsOf(g.images) = <<2, 1>>

\* C6: get_cached_theme reports not-found when the theme has a query record
\* but no associated image, and found only when both exist.
MissOnEmptyImages ==
    \A t \in RawThemes :
        LET rows == { k \in DOMAIN theme_images :
                        k[1] = Normalize(t) /\ k[2] \in DOMAIN curated_images }
        IN \A g \in GetCachedTheme(StoreNow, t) :
              /\ (Normalize(t) \in DOMAIN theme_queries /\ rows = {}) => ~g.found
              /\ g.found => (Normalize(t) \in DOMAIN theme_queries /\ rows # {})

\* C6 happens: get_cached_theme has just missed on a theme that has a query
\* record
MissedWithQueries ==
    /\ last.op = "get"
    /\ last.raised
    /\ \E t \in RawThemes :
          /\ Normalize(t) \in DOMAIN theme_queries
          /\ GetCachedTheme(StoreNow, t) = { NotFound }

(***************************************************************************)
(* SessionStore and the clock.  Timestamps are strings; a string is        *)
(* modelled by its date part, the character after the date and its time    *)
(* part, compared the way SQLite compares text (character by character).   *)
(***************************************************************************)
\* datetime.now(): the naive local time
LocalNow(instant, offset) == instant + offset

\* datetime.isoformat(): 'YYYY-MM-DDTHH:MM:SS.ffffff'
IsoFormat(local) == Stamp(local \div TicksPerDay, "T", local % TicksPerDay)

\* order of the two characters that can follow the date
CharLt(a, b) == a = " " /\ b = "T"

\* text comparison x >= y
TextGe(x, y) ==
    IF x.date # y.date THEN x.date > y.date
    ELSE IF x.sep # y.sep THEN CharLt(y.sep, x.sep)
    ELSE x.time >= y.time

\* started_at >= ? in get_images_shown_recently
StartedSince(started_at, cutoff) == TextGe(started_at, cutoff)

\* the practice_sessions row an INSERT of create_session makes, with the
\* column defaults of the schema; instant is the time of the call, kept for
\* the properties
SessionRow(instant) ==
    [started_at |-> CurrentTimestamp(instant), instant |-> instant,
     status |-> "in_progress", ended_at |-> NullStamp, images_completed |-> 0]

\* the session_images row an INSERT of add_session_image makes
SessionImageRow(session_id, pexels_id, position) ==
    [session_id |-> session_id, pexels_id |-> pexels_id, position |-> position,
     time_spent |-> None, skipped |-> 0]

\* create_session
create_session ==
    /\ Len(practice_sessions) < MaxSessions
    /\ practice_sessions' = Append(practice_sessions, SessionRow(now))
    /\ UNCHANGED session_images

\* add_session_image: session_images has no unique key but its own id, so
\* INSERT OR IGNORE always inserts
add_session_image(session_id, pexels_id, position) ==
    /\ Len(session_images) < MaxSessionImages
    /\ session_images' =
           Append(session_images, SessionImageRow(session_id, pexels_id, position))
    /\ UNCHANGED practice_sessions

\* record_image_interaction: UPDATE ... WHERE session_id = ? AND pexels_id = ?
record_image_interaction(session_id, pexels_id, time_spent, skipped) ==
    /\ session_images' =
           [i \in 1..Len(session_images) |->
               IF /\ session_images[i].session_id = session_id
                  /\ session_images[i].pexels_id = pexels_id
               THEN [session_images[i] EXCEPT
                        !.time_spent = time_spent,
                        !.skipped = IF skipped THEN 1 ELSE 0]
               ELSE session_images[i]]
    /\ UNCHANGED practice_sessions

\* complete_session: UPDATE practice_sessions SET images_completed = ?,
\* ended_at = CURRENT_TIMESTAMP, status = ? WHERE id = ?
complete_session(session_id, images_completed, status) ==
    /\ practice_sessions' =
           [i \in 1..Len(practice_sessions) |->
               IF i = session_id
               THEN [practice_sessions[i] EXCEPT
                        !.images_completed = images_completed,
                        !.ended_at = CurrentTimestamp(now),
                        !.status = status]
               ELSE practice_sessions[i]]
    /\ UNCHANGED session_images

\* a recency query that counts completed sessions only
get_images_shown_in_completed(days) ==
    LET cutoff == IsoFormat(LocalNow(now, tz) - days * TicksPerDay)
    IN { session_images[i].pexels_id : i \in
           { j \in 1..Len(session_images) :
               /\ session_images[j].session_id \in 1..Len(practice_sessions)
               /\ practice_sessions[session_images[j].session_id].status = "completed"
               /\ StartedSince(practice_sessions[session_images[j].session_id].started_at,
                               cutoff) } }

\* get_images_shown_recently
get_images_shown_recently(days) ==
    LET cutoff == IsoFormat(LocalNow(now, tz) - days * TicksPerDay)
    IN { session_images[i].pexels_id : i \in
           { j \in 1..Len(session_images) :
               /\ session_images[j].session_id \in 1..Len(practice_sessions)
               /\ StartedSince(practice_sessions[session_images[j].session_id].started_at,
                               cutoff) } }

(***************************************************************************)
(* The recency tracker on its own, under a running clock.                  *)
(***************************************************************************)
\* UTC-6, UTC and UTC+6 when a tick is six hours
TzOffsets == { 0 - 1, 0, 1 }

InitRecency ==
    /\ image_theme_scores = Empty
    /\ theme_queries = Empty
    /\ curated_images = Empty
    /\ theme_images = Empty
    /\ uncommitted = FALSE
    /\ practice_sessions = <<>>
    /\ session_images = <<>>
    /\ now = 0
    /\ tz \in TzOffsets
    /\ session_config = InitConfig
    /\ query_cache = Empty
    /\ evaluation_cache = Empty
    /\ cur = IdleCall
    /\ sel = NoSelect
    /\ last = NoCall
    /\ gui = IdleGui

others_tracker ==
    << image_theme_scores, store_vars, tz, memo_vars, cur, sel, last, gui >>

Tick ==
    /\ now < MaxClockDays * TicksPerDay
    /\ now' = now + 1
    /\ UNCHANGED << tracker_vars, others_tracker >>

CreateSession == create_session /\ UNCHANGED << now, others_tracker >>

AddSessionImage ==
    \E sid \in 1..Len(practice_sessions), i \in Ids :
        /\ add_session_image(sid, i, Len(session_images))
        /\ UNCHANGED << now, others_tracker >>

NextRecency == Tick \/ CreateSession \/ AddSessionImage

SpecRecency == InitRecency /\ [][NextRecency]_vars

(***************************************************************************)
(* The session store on its own: any sequence of create_session,           *)
(* add_session_image, record_image_interaction and complete_session calls, *)
(* with days passing between them, in a UTC time zone.                     *)
(***************************************************************************)
\* status values handed to complete_session
EndStatuses == { "completed", "abandoned" }

\* the images of the sessions
SessionPhotoIds == { 1, 2 }

InitSessions == InitRecency /\ tz = 0

\* a day goes by
DayPasses ==
    /\ now + TicksPerDay <= MaxDays * TicksPerDay
    /\ now' = now + TicksPerDay
    /\ UNCHANGED << tracker_vars, others_tracker >>

StartSession == create_session /\ UNCHANGED << now, others_tracker >>

ShowImage ==
    \E sid \in 1..Len(practice_sessions), i \in SessionPhotoIds :
        /\ add_session_image(sid, i, Len(session_images))
        /\ UNCHANGED << now, others_tracker >>

\* the image was drawn for one tick, or skipped
RecordInteraction ==
    \E sid \in 1..Len(practice_sessions), i \in SessionPhotoIds, skipped \in BOOLEAN :
        /\ record_image_interaction(sid, i, 1, skipped)
        /\ UNCHANGED << now, others_tracker >>

CompleteSession ==
    \E sid \in 1..Len(practice_sessions), n \in 0..1, status \in EndStatuses :
        /\ complete_session(sid, n, status)
        /\ UNCHANGED << now, others_tracker >>

NextSessions ==
    \/ DayPasses
    \/ StartSession
    \/ ShowImage
    \/ RecordInteraction
    \/ CompleteSession

SpecSessions == InitSessions /\ [][NextSessions]_vars

\* ticks between the start of the session of a session_images row and now
AgeOf(row) == now - practice_sessions[row.session_id].instant

\* C7: get_images_shown_recently(days) holds every image of a session started
\* days - 1 days ago and no image whose sessions all started days + 1 or more
\* days ago.
RecencyWindow ==
    \A days \in 1..MaxDays :
        /\ \A i \in 1..Len(session_images) :
              AgeOf(session_images[i]) = (days - 1) * TicksPerDay
                  => session_images[i].pexels_id \in get_images_shown_recently(days)
        /\ \A p \in get_images_shown_recently(days) :
              \E i \in 1..Len(session_images) :
                  /\ session_images[i].pexels_id = p
                  /\ AgeOf(session_images[i]) < (days + 1) * TicksPerDay

(***************************************************************************)
(* Query generator (query_generator.py).  The language model's answer is   *)
(* an input: the call fails, or json.loads yields some value.              *)
(***************************************************************************)
\* number of characters of the theme strings of the model
CoreLen(core) ==
    IF core = "hands" THEN 5 ELSE IF core = "robots" THEN 6
    ELSE IF core = "general" THEN 7 ELSE 0

\* a theme string used as a search query
ThemeAsQuery(t) ==
    [text |-> t.core, len |-> CoreLen(t.core) + (IF t.pad THEN 2 ELSE 0),
     upper |-> t.upper, pad |-> t.pad]

\* the empty string as a list element
EmptyQuery == Query("", 0)

\* what agent.run and json.loads can deliver: an exception, a value that is
\* not a list, or a list
LlmRaises == [kind |-> "raise", items |-> <<>>]

LlmNotList == [kind |-> "object", items |-> <<>>]

LlmList(items) == [kind |-> "list", items |-> items]

GeneratorAnswers ==
    { LlmRaises, LlmNotList, LlmList(<<>>), LlmList(<<Query("palm", 4)>>),
      LlmList(<<EmptyQuery, EmptyQuery>>),
      LlmList(<<Query("palm", 4), EmptyQuery>>),
      LlmList(<<Query("palm", 4), Query("android", 60)>>) }

\* str(q)[:50]
Truncate(q) == [q EXCEPT !.len = Min(q.len, 50)]

\* a truthy list element
Truthy(q) == q.len > 0

\* [str(q)[:50] for q in queries if q][:6]
Usable(items) ==
    LET kept == SelectSeq(items, Truthy)
    IN Slice([i \in DOMAIN kept |-> Truncate(kept[i])], 6)

\* generate_smart_queries: the list returned and the query cache afterwards
generate_smart_queries(memo, theme, use_cache, answer) ==
    LET theme_lower == Normalize(theme)
    IN IF use_cache /\ theme_lower \in DOMAIN memo
       THEN [queries |-> memo[theme_lower], memo |-> memo]
       ELSE IF answer.kind = "list" /\ Len(answer.items) >= 2
            THEN [queries |-> Usable(answer.items),
                  memo |-> Put(memo, theme_lower, Usable(answer.items))]
            ELSE [queries |-> <<ThemeAsQuery(theme)>>, memo |-> memo]

\* whether generate_smart_queries asks the language model
GeneratorAsked(memo, theme, use_cache) ==
    ~(use_cache /\ Normalize(theme) \in DOMAIN memo)

(***************************************************************************)
(* Theme expansion (curator_tool.py).                                      *)
(***************************************************************************)
\* the entries of THEME_EXPANSIONS the themes of the model can match, in the
\* order of the dict
THEME_EXPANSIONS ==
    << [key |-> "animals",
        queries |-> <<Query("cat", 3), Query("dog", 3), Query("horse", 5), Query("bird", 4)>>],
       [key |-> "hands",
        queries |-> <<Query("hand", 4), Query("fist", 4), Query("fingers", 7), Query("grip", 4)>>],
       [key |-> "hand",
        queries |-> <<Query("hand", 4), Query("fist", 4), Query("fingers", 7), Query("grip", 4)>>],
       [key |-> "hand studies",
        queries |-> <<Query("hand", 4), Query("fist", 4), Query("pointing", 8), Query("grip", 4)>>] >>

\* a in b, for the strings of the model
SubString(a, b) ==
    \/ a = b
    \/ a = ""
    \/ a = "hand" /\ b \in {"hands", "hand studies"}

\* the text of theme.lower().strip(): a blank theme strips to ""
StrippedText(t) == t.core

\* key in theme_lower or theme_lower in key
PresetMatches(key, text) == SubString(key, text) \/ SubString(text, key)

\* index of the first preset that satisfies the test, 0 if none does
FirstPreset(text, exact) ==
    LET hits == { i \in 1..Len(THEME_EXPANSIONS) :
                    IF exact THEN THEME_EXPANSIONS[i].key = text
                    ELSE PresetMatches(THEME_EXPANSIONS[i].key, text) }
    IN IF hits = {} THEN 0 ELSE CHOOSE i \in hits : \A j \in hits : i <= j

\* whether _expand_theme reaches the generator: no preset matches
ExpandReaches(theme) ==
    /\ FirstPreset(StrippedText(theme), TRUE) = 0
    /\ FirstPreset(StrippedText(theme), FALSE) = 0

\* an _expand_theme that returns whatever the generator returned
expand_theme_unchecked(memo, theme, answer, unavailable) ==
    generate_smart_queries(memo, theme, TRUE, answer)

\* _expand_theme(theme): the list returned and the query cache afterwards;
\* unavailable: importing or calling the generator raised
expand_theme(memo, theme, answer, unavailable) ==
    LET text == StrippedText(theme)
        exact == FirstPreset(text, TRUE)
        partial == FirstPreset(text, FALSE)
        g == generate_smart_queries(memo, theme, TRUE, answer)
        fallback == <<ThemeAsQuery(Normalize(theme))>>
    IN IF exact # 0 THEN [queries |-> THEME_EXPANSIONS[exact].queries, memo |-> memo]
       ELSE IF partial # 0
            THEN [queries |-> THEME_EXPANSIONS[partial].queries, memo |-> memo]
       ELSE IF unavailable THEN [queries |-> fallback, memo |-> memo]
       ELSE IF Len(g.queries) >= 2 THEN g
       ELSE [queries |-> fallback, memo |-> g.memo]

(***************************************************************************)
(* Reference filter (image_evaluator.py).                                  *)
(***************************************************************************)
\* "company logo"
Logo == Alt("logo", "")

\* not alt_text or not alt_text.strip()
Blank(a) == a.head \in {"", " "} /\ a.rest \in {"", " "}

\* a bad keyword occurs in alt_text.lower()
HasBadKeyword(a) == a.head = "logo" \/ a.rest = "logo"

\* theme or "general"
EvalTheme(theme) == IF theme = NoTheme THEN ThemeStr("general", FALSE, FALSE) ELSE theme

\* f"{theme.lower()}:{alt_text[:100]}"
CacheKey(theme, a) == << Lower(theme), AltCut(a) >>

\* whether evaluate_image asks the language model
EvaluatorAsked(memo, a, theme) ==
    /\ ~Blank(a)
    /\ CacheKey(theme, a) \notin DOMAIN memo
    /\ ~HasBadKeyword(a)

\* the language model finds the image good or bad, or the call or the parsing
\* of its answer fails
EvaluatorAnswers == { "good", "bad", "error" }

\* evaluate_image: is_good of the dict returned and the evaluation cache
\* afterwards
evaluate_image(memo, a, theme, answer) ==
    LET cache_key == CacheKey(theme, a)
    IN IF Blank(a) THEN [is_good |-> TRUE, memo |-> memo]
       ELSE IF cache_key \in DOMAIN memo
            THEN [is_good |-> memo[cache_key], memo |-> memo]
       ELSE IF HasBadKeyword(a)
            THEN [is_good |-> FALSE, memo |-> Put(memo, cache_key, FALSE)]
       ELSE IF answer = "error" THEN [is_good |-> TRUE, memo |-> memo]
       ELSE [is_good |-> answer = "good", memo |-> Put(memo, cache_key, answer = "good")]

\* is_good_reference
is_good_reference(memo, a, theme, answer) ==
    evaluate_image(memo, a, EvalTheme(theme), answer)

(***************************************************************************)
(* Session configuration (session_control_tool.py).                        *)
(***************************************************************************)
MAX_IMAGES == 15

\* a setter that stores the whole list
set_images_unsliced(images) ==
    session_config' = [session_config EXCEPT !.images = images,
                                             !.preview_ready = FALSE,
                                             !.session_started = FALSE]

\* a setter that leaves the two flags as they are
set_images_keep_flags(images) ==
    session_config' = [session_config EXCEPT !.images = Slice(images, MAX_IMAGES)]

\* set_images_for_session
set_images_for_session(images) ==
    session_config' = [session_config EXCEPT !.images = Slice(images, MAX_IMAGES),
                                             !.preview_ready = FALSE,
                                             !.session_started = FALSE]

\* get_current_config()
get_current_config == session_config

\* reset_session_state
reset_session_state ==
    session_config' = [session_config EXCEPT !.images = <<>>,
                                             !.preview_ready = FALSE,
                                             !.session_started = FALSE]

VALID_DURATIONS == <<30, 60, 120, 300, 600>>

\* min(VALID_DURATIONS, key=lambda x: abs(x - seconds)): the first of the
\* closest options
ClosestDuration(seconds) ==
    LET dist(i) == IF VALID_DURATIONS[i] >= seconds THEN VALID_DURATIONS[i] - seconds
                   ELSE seconds - VALID_DURATIONS[i]
        best == CHOOSE i \in 1..Len(VALID_DURATIONS) :
                   /\ \A j \in 1..Len(VALID_DURATIONS) : dist(i) <= dist(j)
                   /\ \A j \in 1..(i - 1) : dist(j) > dist(i)
    IN VALID_DURATIONS[best]

\* set_session_duration
set_session_duration(seconds) ==
    session_config' = [session_config EXCEPT !.duration_seconds = ClosestDuration(seconds)]

\* set_image_count: the count is clamped to 1..MAX_IMAGES and the images are
\* trimmed to it
set_image_count(count) ==
    LET clamped == IF count < 1 THEN 1 ELSE IF count > MAX_IMAGES THEN MAX_IMAGES ELSE count
    IN session_config' = [session_config EXCEPT !.image_count = clamped,
                                                !.images = Slice(@, clamped)]

\* the dict prepare_session_preview stores: 'id' is added to a dict that has
\* 'pexels_id' only
NormalizedImg(img) ==
    IF img.pexels_id # None /\ img.id = None THEN [img EXCEPT !.id = img.pexels_id] ELSE img

\* _session_config after prepare_session_preview(images); <<>> stands for
\* None as well
PreparedConfig(config, images) ==
    LET cut == Slice(images, MAX_IMAGES)
        loaded == IF images # <<>>
                  THEN [config EXCEPT !.images = [i \in 1..Len(cut) |-> NormalizedImg(cut[i])]]
                  ELSE config
    IN IF loaded.images = <<>> THEN loaded ELSE [loaded EXCEPT !.preview_ready = TRUE]

\* prepare_session_preview; last keeps 'success' of the dict returned
prepare_session_preview(images) ==
    /\ session_config' = PreparedConfig(session_config, images)
    /\ last' = [op |-> "preview",
                raised |-> PreparedConfig(session_config, images).images = <<>>]

\* a start that does not ask for the preview
StartAllowedWithImages(config) == config.images # <<>>

\* the two tests of start_practice_session
StartAllowed(config) == config.images # <<>> /\ config.preview_ready

\* start_practice_session; last keeps 'success' of the dict returned
start_practice_session(theme) ==
    /\ session_config' = IF StartAllowed(session_config)
                         THEN [session_config EXCEPT !.session_started = TRUE,
                                                     !.theme = theme]
                         ELSE session_config
    /\ last' = [op |-> "start", raised |-> ~StartAllowed(session_config)]

(***************************************************************************)
(* Provider client (pexels_client.py).  What the service answers is an     *)
(* input: the request fails, or it returns some photos.                    *)
(***************************************************************************)
Photo(i, a) == [id |-> i, alt |-> a]

SearchFails == [raised |-> TRUE, photos |-> <<>>]

SearchReturns(photos) == [raised |-> FALSE, photos |-> photos]

\* what search_photos can do
search_photos ==
    { SearchFails, SearchReturns(<<>>),
      SearchReturns(<<Photo(1, Plain), Photo(2, NoAlt)>>),
      SearchReturns(<<Photo(2, Logo), Photo(1, Plain)>>) }

(***************************************************************************)
(* curate_reference_photos (curator_tool.py).  A call runs in steps, one   *)
(* per dependency it calls; cur is the call's frame.  call counts the      *)
(* calls begun; fetched, all_failed and before are kept for the            *)
(* properties: the photos the provider returned to this call, the ids of    *)
(* those that passed the reference filter, whether every search it made     *)
(* raised, whether one of them did, whether save_theme_results ran, and the *)
(* tables when the call began.                                              *)
(***************************************************************************)
EXCLUDE_RECENT_DAYS == 3

IdleCurate ==
    [pc |-> "idle", call |-> 0, theme |-> NoTheme, target_count |-> 0,
     force_fresh |-> FALSE, recently_used |-> {}, available |-> <<>>,
     needed |-> 0, queries |-> <<>>, fetch_per_query |-> 0, next |-> 1, new_images |-> <<>>,
     result |-> <<>>, outcome |-> "none", fetched |-> {}, passed |-> {},
     all_failed |-> TRUE, some_failed |-> FALSE, saved |-> FALSE,
     before |-> EmptyStore]

\* _get_recently_used_ids: a failing tracker counts as no recent image
get_recently_used_ids == { get_images_shown_recently(EXCLUDE_RECENT_DAYS), {} }

\* _get_cached_images_with_scores: the lists it can return, <<>> standing for
\* None (nothing cached, or the store failed)
get_cached_images_with_scores(theme) ==
    GetCachedImagesForTheme(StoreNow, theme) \cup { <<>> }

\* a cache filter that keeps every cached image
FreshUnfiltered(cached_images, recently_used) == cached_images

\* a cache filter with the test inverted
FreshInverted(cached_images, recently_used) ==
    LET keep(img) == img.pexels_id \in recently_used
    IN SelectSeq(cached_images, keep)

\* [img for img in cached_images if img['pexels_id'] not in recently_used]
Fresh(cached_images, recently_used) ==
    LET keep(img) == img.pexels_id \notin recently_used
    IN SelectSeq(cached_images, keep)

\* the scorer's select_images as the curator sees it: a list, or an exception
ScorerRaises == [raised |-> TRUE, images |-> <<>>]

scorer_select(available, theme, count, exclude_ids) ==
    { [raised |-> FALSE, images |-> imgs] :
        imgs \in select_images(available, theme, count, exclude_ids) }
    \cup { ScorerRaises }

\* the call returns images: set_images_for_session, then return
Return(frame, images) ==
    /\ set_images_for_session(images)
    /\ cur' = [frame EXCEPT !.pc = "done", !.outcome = "returned", !.result = images]

\* the call ends with an exception
Raise(frame) ==
    /\ cur' = [frame EXCEPT !.pc = "done", !.outcome = "raised"]
    /\ UNCHANGED session_config

\* a cache-hit test that wants one image to spare
CacheSufficesStrictly(available, target_count) == Len(available) > target_count

\* if len(available) >= target_count
CacheSuffices(available, target_count) == Len(available) >= target_count

\* lines 149-191: recency set, cache path
curate_begin(theme, target_count, force_fresh) ==
    \E recently_used \in get_recently_used_ids :
    \E cached_images \in (IF force_fresh THEN { <<>> }
                          ELSE get_cached_images_with_scores(theme)) :
        LET available == Fresh(cached_images, recently_used)
            frame == [IdleCurate EXCEPT
                         !.call = cur.call + 1, !.theme = theme,
                         !.target_count = target_count,
                         !.force_fresh = force_fresh,
                         !.recently_used = recently_used,
                         !.available = available,
                         !.needed = target_count - Len(available),
                         !.before = StoreNow]
            fetch == /\ cur' = [frame EXCEPT !.pc = "queries"]
                     /\ UNCHANGED session_config
        IN IF cached_images # <<>> /\ CacheSuffices(available, target_count)
           THEN \E s \in scorer_select(available, theme, target_count, recently_used) :
                    IF s.raised THEN Return(frame, Slice(available, target_count))
                    ELSE IF s.images # <<>> THEN Return(frame, s.images)
                    ELSE fetch
           ELSE fetch

\* max(10, (needed * 2) // len(queries) + 3), for a non-empty list
fetch_per_query(needed, queries) == Max(10, (needed * 2) \div Len(queries) + 3)

\* lines 193-212: the queries, then fetch_per_query, whose division by
\* len(queries) raises ZeroDivisionError for an empty list
curate_queries ==
    \E answer \in GeneratorAnswers, unavailable \in BOOLEAN :
        LET reached == cur.force_fresh \/ ExpandReaches(cur.theme)
            asked == reached /\ GeneratorAsked(query_cache, cur.theme, ~cur.force_fresh)
            g == IF cur.force_fresh
                 THEN IF unavailable
                      THEN [queries |-> <<ThemeAsQuery(cur.theme)>>, memo |-> query_cache]
                      ELSE generate_smart_queries(query_cache, cur.theme, FALSE, answer)
                 ELSE expand_theme(query_cache, cur.theme, answer, unavailable)
            frame == [cur EXCEPT !.queries = g.queries]
        IN \* the generator's answer matters only when it is asked, its
           \* availability only when it is reached
           /\ unavailable => reached
           /\ (unavailable \/ ~asked) => answer = LlmRaises
           /\ query_cache' = g.memo
           /\ IF Len(g.queries) = 0 THEN Raise(frame)
              ELSE /\ cur' = [frame EXCEPT
                                 !.pc = "search",
                                 !.fetch_per_query = fetch_per_query(cur.needed, g.queries)]
                   /\ UNCHANGED session_config

\* a duplicate test that looks at the recency set only
KnownIfRecent(id, recently_used, available, new_images) == id \in recently_used

\* lines 224-230: the photo is recently used, cached or already collected
Known(id, recently_used, available, new_images) ==
    \/ id \in recently_used
    \/ \E i \in 1..Len(available) : available[i].pexels_id = id
    \/ \E i \in 1..Len(new_images) : new_images[i].pexels_id = id

\* lines 219-237: the photos of one search, filtered and deduplicated; the
\* lists new_images can become and the evaluation cache that goes with each
RECURSIVE collect(_, _, _, _)
collect(photos, new_images, memo, frame) ==
    IF photos = <<>> THEN { [new_images |-> new_images, memo |-> memo, passed |-> {}] }
    ELSE LET photo == Head(photos)
             answers == IF EvaluatorAsked(memo, photo.alt, EvalTheme(frame.theme))
                        THEN EvaluatorAnswers ELSE { "good" }
         IN UNION { LET e == is_good_reference(memo, photo.alt, frame.theme, answer)
                        known == Known(photo.id, frame.recently_used,
                                       frame.available, new_images)
                    IN { [c EXCEPT !.passed = IF e.is_good THEN @ \cup {photo.id} ELSE @] :
                           c \in collect(Tail(photos),
                                         IF e.is_good /\ ~known
                                         THEN Append(new_images,
                                                     Img(photo.id, None, photo.alt, 0, TRUE))
                                         ELSE new_images,
                                         e.memo, frame) }
                  : answer \in answers }

\* the soft cap of the live fetch, scaled to the two photos the provider has
SoftCap == 2

\* a loop that a failing search ends
LoopBreaksOnFailure(next, queries, raised) ==
    IF raised \/ next = Len(queries) THEN "select" ELSE "search"

\* for query in queries, with try/except/continue around each search: where
\* the call goes after the search of query number next
LoopAfter(next, queries, raised) ==
    IF next = Len(queries) THEN "select" ELSE "search"

\* lines 214-241: the search of the next query
curate_search ==
    \E response \in search_photos :
    \E c \in collect(response.photos, cur.new_images, evaluation_cache, cur) :
        /\ evaluation_cache' = c.memo
        /\ cur' = [cur EXCEPT
                      !.new_images = c.new_images,
                      !.next = @ + 1,
                      !.pc = LoopAfter(cur.next, cur.queries, response.raised),
                      !.all_failed = @ /\ response.raised,
                      !.some_failed = @ \/ response.raised,
                      !.fetched = @ \cup Range(response.photos),
                      !.passed = @ \cup c.passed]

\* a persistence test that forgets force_fresh
SaveWantedAlwaysNew(new_images, force_fresh) == new_images # <<>>

\* a persistence test that forgets to look at new_images
SaveWantedUnlessFresh(new_images, force_fresh) == ~force_fresh

\* if new_images and not force_fresh
SaveWanted(new_images, force_fresh) == new_images # <<>> /\ ~force_fresh

\* a save that hands over the queries and no image
try_save_queries_only(theme, queries, images, offline) ==
    IF offline THEN UNCHANGED store_vars
    ELSE LET r == SaveThemeResults(StoreNow, theme, queries, <<>>)
         IN WriteStore(r.st, ~r.raised)

\* _try_save_to_cache: the tables afterwards; a store that cannot be reached
\* raises before it writes, and the exception is swallowed
try_save_to_cache(theme, queries, images, offline) ==
    IF offline THEN UNCHANGED store_vars
    ELSE LET r == SaveThemeResults(StoreNow, theme, queries, images)
         IN WriteStore(r.st, ~r.raised)

\* lines 243-268: final selection, persistence, session configuration
curate_finish ==
    LET all_images == cur.available \o cur.new_images
    IN \E s \in scorer_select(all_images, cur.theme, cur.target_count, cur.recently_used),
          offline \in BOOLEAN :
          LET final_images == IF s.raised THEN Slice(all_images, cur.target_count)
                              ELSE s.images
          IN /\ IF SaveWanted(cur.new_images, cur.force_fresh)
                THEN try_save_to_cache(cur.theme, cur.queries, cur.new_images, offline)
                ELSE ~offline /\ UNCHANGED store_vars
             /\ Return([cur EXCEPT !.saved = SaveWanted(cur.new_images, cur.force_fresh)
                                               /\ ~offline],
                       final_images)

(***************************************************************************)
(* The session configuration on its own: the agent's session-control tools *)
(* in any order, and curate_reference_photos returning a list, which       *)
(* registers it with set_images_for_session.                               *)
(***************************************************************************)
\* a list of n image dicts with ids 1..n
ImgList(n) == [i \in 1..n |-> Img(i, None, Plain, 0, TRUE)]

\* lists curate_reference_photos returns: none, one, two, and one image more
\* than a session holds
ReturnedLists == { ImgList(0), ImgList(1), ImgList(2), ImgList(MAX_IMAGES + 1) }

others_control ==
    << image_theme_scores, store_vars, tracker_vars, clock_vars, query_cache,
       evaluation_cache, sel, gui >>

\* the last two statements of every return path of curate_reference_photos
CurateReturns ==
    /\ \E images \in ReturnedLists : Return(IdleCurate, images)
    /\ last' = [op |-> "curate", raised |-> FALSE]
    /\ UNCHANGED others_control

ResetSession ==
    /\ reset_session_state
    /\ last' = [op |-> "reset", raised |-> FALSE]
    /\ UNCHANGED << cur, others_control >>

SetDuration ==
    /\ \E seconds \in {30, 45, 700} : set_session_duration(seconds)
    /\ last' = [op |-> "duration", raised |-> FALSE]
    /\ UNCHANGED << cur, others_control >>

SetImageCount ==
    /\ \E count \in {0, 1, 2, MAX_IMAGES + 1} : set_image_count(count)
    /\ last' = [op |-> "count", raised |-> FALSE]
    /\ UNCHANGED << cur, others_control >>

PreparePreview ==
    /\ \E images \in { ImgList(0), ImgList(1) } : prepare_session_preview(images)
    /\ UNCHANGED << cur, others_control >>

StartPractice ==
    /\ \E theme \in { NoTheme, ThemeStr("hands", FALSE, FALSE) } :
          start_practice_session(theme)
    /\ UNCHANGED << cur, others_control >>

NextControl ==
    \/ CurateReturns \/ ResetSession \/ SetDuration \/ SetImageCount
    \/ PreparePreview \/ StartPractice

SpecControl == Init /\ [][NextControl]_vars

(***************************************************************************)
(* The practice widget (EmbeddedPracticeWidget).  Its fields are the       *)
(* record gui; every slot runs to its end on the GUI thread, so a slot and *)
(* the slots it calls are one step.  The slots are written as functions of *)
(* w, the widget with the tables it writes.                                *)
(***************************************************************************)
\* photo.get('id') or photo.get('pexels_id')
PhotoId(photo) == IF photo.id # None THEN photo.id ELSE photo.pexels_id

\* the widget and the tables its slots write
WidgetWorld ==
    [g |-> gui, ps |-> practice_sessions, si |-> session_images,
     ci |-> curated_images, sc |-> image_theme_scores]

\* __init__; view is the page of the window's view_stack, dialog says that the
\* End Session question is open.  status, signalled, visited, disliked,
\* returned, decays, backs and feedbacks record the run for the properties:
\* the status and the count of the last _finalize_session, the indexes shown,
\* the indexes that got negative feedback and those of them Previous came
\* back to,
\* the record_negative_feedback calls per index, the inputs counted, and the
\* start_session calls so far
NewWidget ==
    [photos |-> <<>>, duration_seconds |-> 60, theme |-> NoTheme,
     current_index |-> 0, time_remaining |-> 60, is_paused |-> FALSE,
     session_id |-> None, image_start_time |-> None, images_completed |-> 0,
     timer |-> FALSE, view |-> "chat", dialog |-> FALSE,
     status |-> "none", signalled |-> None, visited |-> <<>>, disliked |-> {},
     returned |-> {}, decays |-> <<>>, backs |-> 0, feedbacks |-> 0,
     sessions |-> 0]

\* the practice_sessions row create_session inserts
PracticeSessionRow(instant, theme, duration_per_image, total_images) ==
    [started_at |-> CurrentTimestamp(instant), instant |-> instant,
     status |-> "in_progress", ended_at |-> NullStamp, images_completed |-> 0,
     theme |-> theme, duration_per_image |-> duration_per_image,
     total_images |-> total_images]

\* session_images after record_image_interaction
RecordedRows(rows, session_id, pexels_id, time_spent, skipped) ==
    [i \in 1..Len(rows) |->
        IF rows[i].session_id = session_id /\ rows[i].pexels_id = pexels_id
        THEN [rows[i] EXCEPT !.time_spent = time_spent,
                             !.skipped = IF skipped THEN 1 ELSE 0]
        ELSE rows[i]]

\* practice_sessions after complete_session
CompletedRows(sessions, session_id, images_completed, status, instant) ==
    [i \in 1..Len(sessions) |->
        IF i = session_id
        THEN [sessions[i] EXCEPT !.images_completed = images_completed,
                                 !.ended_at = CurrentTimestamp(instant),
                                 !.status = status]
        ELSE sessions[i]]

HasPexelsId(entry) == entry.pexels_id # None

\* the rows the loop of _create_session_record adds: one per photo with an id
SessionRowsOf(session_id, photos) ==
    LET entries == [i \in 1..Len(photos) |->
                       [pexels_id |-> PhotoId(photos[i]), position |-> i - 1]]
        kept == SelectSeq(entries, HasPexelsId)
    IN [i \in 1..Len(kept) |->
           SessionImageRow(session_id, kept[i].pexels_id, kept[i].position)]

\* _create_session_record; with fails, create_session raises and the widget
\* runs without a record
widget_create_session_record(w, fails) ==
    IF fails THEN [w EXCEPT !.g.session_id = None]
    ELSE LET session_id == Len(w.ps) + 1
             theme == IF w.g.theme = NoTheme
                      THEN ThemeStr("general", FALSE, FALSE) ELSE w.g.theme
         IN [w EXCEPT
               !.g.session_id = session_id,
               !.ps = Append(@, PracticeSessionRow(now, theme, w.g.duration_seconds,
                                                   Len(w.g.photos))),
               !.si = @ \o SessionRowsOf(session_id, w.g.photos)]

\* start_session
widget_start_session(w, photos, duration_seconds, theme, fails) ==
    widget_create_session_record(
        [w EXCEPT !.g = [NewWidget EXCEPT
                           !.photos = photos,
                           !.duration_seconds = duration_seconds,
                           !.theme = theme,
                           !.time_remaining = duration_seconds,
                           !.image_start_time = now,
                           !.timer = TRUE,
                           !.view = "practice",
                           !.visited = <<0>>,
                           !.sessions = w.g.sessions + 1,
                           !.decays = [i \in 1..Len(photos) |-> 0]]],
        fails)

\* _record_image_interaction
widget_record_image_interaction(w, skipped) ==
    LET pexels_id == PhotoId(w.g.photos[w.g.current_index + 1])
    IN IF w.g.session_id = None \/ pexels_id = None THEN w
       ELSE [w EXCEPT
               !.si = RecordedRows(@, w.g.session_id, pexels_id,
                                   now - w.g.image_start_time, skipped),
               !.ci = UpdateImageUsage([images |-> @], pexels_id).images,
               !.g.images_completed = @ + 1]

\* _finalize_session
widget_finalize_session(w, status) ==
    [w EXCEPT
       !.g.timer = FALSE,
       !.ps = IF w.g.session_id # None
              THEN CompletedRows(@, w.g.session_id, w.g.images_completed, status, now)
              ELSE @,
       !.g.status = status,
       !.g.signalled = w.g.images_completed]

\* _session_complete; session_ended takes the window back to the chat view
widget_session_complete(w) ==
    LET finalized ==
            widget_finalize_session(widget_record_image_interaction(w, FALSE),
                                    "completed")
    IN [finalized EXCEPT !.g.view = "chat"]

\* a test that lets _next_image step from the last photo
HasNextAlways(g) == TRUE

\* self.current_index < len(self.photos) - 1
HasNext(g) == g.current_index < Len(g.photos) - 1

\* a test that lets _prev_image step from the first photo
HasPreviousAlways(g) == TRUE

\* self.current_index > 0
HasPrevious(g) == g.current_index > 0

\* _next_image
widget_next_image(w, skipped) ==
    LET recorded == widget_record_image_interaction(w, skipped)
    IN IF HasNext(recorded.g)
       THEN [recorded EXCEPT
               !.g.current_index = @ + 1,
               !.g.time_remaining = recorded.g.duration_seconds,
               !.g.image_start_time = now,
               !.g.visited = Append(@, recorded.g.current_index + 1)]
       ELSE widget_session_complete(recorded)

\* _prev_image
widget_prev_image(w) ==
    IF HasPrevious(w.g)
    THEN [w EXCEPT
            !.g.current_index = @ - 1,
            !.g.time_remaining = w.g.duration_seconds,
            !.g.image_start_time = now,
            !.g.visited = Append(@, w.g.current_index - 1),
            !.g.returned = @ \cup ({ w.g.current_index - 1 } \cap w.g.disliked)]
    ELSE w

\* _toggle_pause
widget_toggle_pause(w) == [w EXCEPT !.g.is_paused = ~@]

\* _on_timer_end
widget_on_timer_end(w) ==
    IF HasNext(w.g) THEN widget_next_image(w, FALSE) ELSE widget_session_complete(w)

\* a tick that counts down whether the session is paused or not
TickIgnoredNever(g) == FALSE

\* if self.is_paused: return
TickIgnored(g) == g.is_paused

\* _tick
widget_tick(w) ==
    IF TickIgnored(w.g) THEN w
    ELSE LET ticked == [w EXCEPT !.g.time_remaining = @ - 1]
         IN IF ticked.g.time_remaining <= 0 THEN widget_on_timer_end(ticked)
            ELSE ticked

\* if pexels_id and self.theme
FeedbackTaken(g) ==
    PhotoId(g.photos[g.current_index + 1]) # None /\ g.theme # NoTheme

\* _on_positive_feedback
widget_on_positive_feedback(w) ==
    IF FeedbackTaken(w.g)
    THEN [w EXCEPT
            !.sc = FeedbackRow(@, << PhotoId(w.g.photos[w.g.current_index + 1]),
                                     Normalize(w.g.theme) >>, "positive")]
    ELSE w

\* _on_negative_feedback
widget_on_negative_feedback(w) ==
    IF FeedbackTaken(w.g)
    THEN widget_next_image(
             [w EXCEPT
                !.sc = FeedbackRow(@, << PhotoId(w.g.photos[w.g.current_index + 1]),
                                         Normalize(w.g.theme) >>, "negative"),
                !.g.disliked = @ \cup { w.g.current_index },
                !.g.decays[w.g.current_index + 1] = @ + 1],
             TRUE)
    ELSE w

\* _end_session once the question is answered
widget_end_session(w, yes) ==
    IF yes
    THEN [widget_finalize_session(w, "abandoned") EXCEPT
            !.g.view = "chat", !.g.dialog = FALSE]
    ELSE [w EXCEPT !.g.dialog = FALSE]

(***************************************************************************)
(* One practice session after another: the timer ticks while it is active, *)
(* the buttons and shortcuts work while the practice view is shown and no  *)
(* dialog is open, and the End Session question stays open (with the timer *)
(* running) until it is answered.                                          *)
(***************************************************************************)
\* sessions started in one run
MaxPractices == 1

\* Previous inputs in one run
MaxBack == 1

\* feedback inputs in one run
MaxWidgetFeedback == 2

\* the photo lists of a session: one photo, two, and two of which the second
\* has no id
PracticePhotos ==
    { << Img(None, 1, Plain, 0, TRUE) >>,
      << Img(None, 1, Plain, 0, TRUE), Img(2, None, Plain, 1, TRUE) >>,
      << Img(None, 1, Plain, 0, TRUE), Img(None, None, Plain, 0, TRUE) >> }

PracticeDurations == { 1, 2 }

PracticeThemes == { ThemeStr("hands", TRUE, TRUE), NoTheme }

\* the cache as a curation that found images 1 and 2 left it
InitPractice ==
    LET st == SaveThemeResults(EmptyStore, ThemeStr("hands", TRUE, TRUE),
                               <<Query("hand", 4)>>,
                               <<Img(1, None, Plain, 0, TRUE),
                                 Img(2, None, Plain, 0, TRUE)>>).st
    IN /\ image_theme_scores = Empty
       /\ theme_queries = st.queries
       /\ curated_images = st.images
       /\ theme_images = st.links
       /\ uncommitted = FALSE
       /\ practice_sessions = <<>>
       /\ session_images = <<>>
       /\ now = 0
       /\ tz = 0
       /\ session_config = InitConfig
       /\ query_cache = Empty
       /\ evaluation_cache = Empty
       /\ cur = IdleCall
       /\ sel = NoSelect
       /\ last = NoCall
       /\ gui = NewWidget

\* the tables become those of w and the widget its g
WidgetDoes(w, op) ==
    /\ gui' = w.g
    /\ practice_sessions' = w.ps
    /\ session_images' = w.si
    /\ curated_images' = w.ci
    /\ image_theme_scores' = w.sc
    /\ last' = [op |-> op, raised |-> FALSE]
    /\ UNCHANGED << theme_queries, theme_images, uncommitted, clock_vars,
                    memo_vars, cur, sel >>

\* the buttons and shortcuts of the widget reach it
InputsOpen == gui.view = "practice" /\ ~gui.dialog

\* MainWindow._launch_practice_session
WidgetStart ==
    /\ gui.view = "chat" /\ ~gui.dialog
    /\ gui.sessions < MaxPractices
    /\ \E photos \in PracticePhotos, duration_seconds \in PracticeDurations,
          theme \in PracticeThemes, fails \in BOOLEAN :
          WidgetDoes(widget_start_session(WidgetWorld, photos, duration_seconds,
                                          theme, fails), "start")

\* the QTimer fires
TimerTick ==
    /\ gui.timer
    /\ WidgetDoes(widget_tick(WidgetWorld), "tick")

\* the Skip button or the Right key
Skip ==
    /\ InputsOpen
    /\ WidgetDoes(widget_next_image(WidgetWorld, FALSE), "next")

\* the Previous button or the Left key
Previous ==
    /\ InputsOpen
    /\ gui.backs < MaxBack
    /\ WidgetDoes(widget_prev_image([WidgetWorld EXCEPT !.g.backs = @ + 1]), "prev")

\* the Pause button or the space bar
TogglePause ==
    /\ InputsOpen
    /\ WidgetDoes(widget_toggle_pause(WidgetWorld), "pause")

\* the Good Reference button
Like ==
    /\ InputsOpen
    /\ gui.feedbacks < MaxWidgetFeedback
    /\ WidgetDoes(widget_on_positive_feedback(
                      [WidgetWorld EXCEPT !.g.feedbacks = @ + 1]), "like")

\* the Not Helpful button
Dislike ==
    /\ InputsOpen
    /\ gui.feedbacks < MaxWidgetFeedback
    /\ WidgetDoes(widget_on_negative_feedback(
                      [WidgetWorld EXCEPT !.g.feedbacks = @ + 1]), "dislike")

\* the End Session button opens the question
EndAsk ==
    /\ InputsOpen
    /\ WidgetDoes([WidgetWorld EXCEPT !.g.dialog = TRUE], "ask")

\* the question is answered
EndAnswer ==
    /\ gui.dialog
    /\ \E yes \in BOOLEAN :
          WidgetDoes(widget_end_session(WidgetWorld, yes),
                     IF yes THEN "end" ELSE "stay")

NextPractice ==
    \/ WidgetStart \/ TimerTick \/ Skip \/ Previous \/ TogglePause
    \/ Like \/ Dislike \/ EndAsk \/ EndAnswer

SpecPractice == InitPractice /\ [][NextPractice]_vars

\* the QTimer fires every second from start_session until _finalize_session
\* stops it
SpecPracticeFair == SpecPractice /\ WF_vars(TimerTick)

(***************************************************************************)
(* The curator with its dependencies: calls of curate_reference_photos,    *)
(* one at a time, and practice sessions recorded between them.             *)
(***************************************************************************)
CurateThemes == { ThemeStr("hands", TRUE, TRUE), ThemeStr("robots", FALSE, FALSE) }

\* target_count: none, fewer than the images at hand, more than them
Targets == {0, 1, 10}

\* the cache tables at the start: empty, or as an earlier call for "  Hands "
\* that collected images 1 and 2 left them
CachedStores ==
    { EmptyStore,
      SaveThemeResults(EmptyStore, ThemeStr("hands", TRUE, TRUE),
                       THEME_EXPANSIONS[2].queries,
                       <<Img(1, None, Plain, 0, TRUE), Img(2, None, NoAlt, 0, TRUE)>>).st }

InitCurate ==
    /\ image_theme_scores = Empty
    /\ \E st \in CachedStores :
          /\ theme_queries = st.queries
          /\ curated_images = st.images
          /\ theme_images = st.links
    /\ uncommitted = FALSE
    /\ practice_sessions = <<>>
    /\ session_images = <<>>
    /\ now = 0
    /\ tz = 0
    /\ session_config = InitConfig
    /\ query_cache = Empty
    /\ evaluation_cache = Empty
    /\ cur = IdleCurate
    /\ sel = NoSelect
    /\ last = NoCall
    /\ gui = IdleGui

others_curate == << image_theme_scores, clock_vars, sel, last, gui >>

CurateBegin ==
    /\ cur.pc = "idle"
    /\ cur.call < MaxCalls
    /\ \E theme \in CurateThemes, target_count \in Targets, force_fresh \in BOOLEAN :
          curate_begin(theme, target_count, force_fresh)
    /\ UNCHANGED << store_vars, tracker_vars, query_cache, evaluation_cache,
                    others_curate >>

CurateQueries ==
    /\ cur.pc = "queries"
    /\ curate_queries
    /\ UNCHANGED << store_vars, tracker_vars, evaluation_cache, others_curate >>

CurateSearch ==
    /\ cur.pc = "search"
    /\ curate_search
    /\ UNCHANGED << store_vars, tracker_vars, session_config, query_cache,
                    others_curate >>

CurateFinish ==
    /\ cur.pc = "select"
    /\ curate_finish
    /\ UNCHANGED << tracker_vars, query_cache, evaluation_cache, others_curate >>

\* the caller takes the result
CurateEnd ==
    /\ cur.pc = "done"
    /\ cur' = [IdleCurate EXCEPT !.call = cur.call]
    /\ UNCHANGED << store_vars, tracker_vars, memo_vars, others_curate >>

\* the images a practice session shows
ShownIds == {1}

\* a practice session with one image is recorded
RecordSession ==
    /\ cur.pc = "idle"
    /\ practice_sessions = <<>>
    /\ \E i \in ShownIds :
          /\ practice_sessions' = <<SessionRow(now)>>
          /\ session_images' = <<SessionImageRow(1, i, 0)>>
    /\ UNCHANGED << store_vars, memo_vars, cur, others_curate >>

NextCurate ==
    \/ CurateBegin
    \/ CurateQueries
    \/ CurateSearch
    \/ CurateFinish
    \/ CurateEnd
    \/ RecordSession

SpecCurate == InitCurate /\ [][NextCurate]_vars

\* the theme of the running call had no cached image when the call began
CacheWasEmpty == ThemeIds(cur.before, Normalize(cur.theme)) = {}

\* C8: when every provider search of a curate_reference_photos(theme, n, False)
\* call raises and the cache held no image for the theme, the call returns the
\* empty list without raising and leaves the cache tables as they were.
GracefulDegradation ==
    (cur.pc = "done" /\ ~cur.force_fresh /\ cur.all_failed /\ CacheWasEmpty) =>
        /\ cur.outcome = "returned"
        /\ cur.result = <<>>
        /\ StoreNow = cur.before

\* C8 happens: a call for 10 images, not force_fresh, made its searches, all of
\* which raised, on an empty cache
DegradedCall ==
    /\ cur.pc = "done"
    /\ ~cur.force_fresh
    /\ cur.target_count = 10
    /\ cur.next > Len(cur.queries)
    /\ cur.all_failed
    /\ CacheWasEmpty
    /\ cur.result = <<>>

\* C9: curate_reference_photos returns a list and never raises, for every
\* theme, target_count >= 0 and force_fresh, whatever its dependencies do.
CurateNeverRaises == cur.pc = "done" => cur.outcome = "returned"

\* C10: a force_fresh call holds no cached image, every image it returns is a
\* photo a provider search returned to this call, and theme_queries,
\* curated_images and theme_images stay as they were when the call began.
ForceFreshBypassesCache ==
    (cur.pc # "idle" /\ cur.force_fresh) =>
        /\ cur.available = <<>>
        /\ StoreNow = cur.before
        /\ \A i \in 1..Len(cur.result) :
              Photo(cur.result[i].pexels_id, cur.result[i].alt) \in cur.fetched

\* C10 happens: a force_fresh call returned images while the cache held, for
\* its theme, an image outside the recency set
FreshOverPopulatedCache ==
    /\ cur.pc = "done"
    /\ cur.force_fresh
    /\ cur.outcome = "returned"
    /\ cur.result # <<>>
    /\ \E p \in ThemeIds(cur.before, Normalize(cur.theme)) : p \notin cur.recently_used

\* the ids cached for the theme of the running call when it began that are
\* outside the recency set the call was given
FreshCached == ThemeIds(cur.before, Normalize(cur.theme)) \ cur.recently_used

\* the running call has returned images of its filtered cache list without
\* expanding the theme and without a provider search
ServedFromCacheOnly ==
    /\ cur.pc = "done"
    /\ cur.outcome = "returned"
    /\ \A i \in 1..Len(cur.result) :
          /\ cur.result[i] \in Range(cur.available)
          /\ cur.result[i].pexels_id \in FreshCached
    /\ cur.queries = <<>>
    /\ cur.next = 1
    /\ cur.fetched = {}

\* C11 as stated: whenever the theme has at least target_count cached images
\* outside the recency set, a call that is not force_fresh returns images of
\* the cache only, with no query expansion and no provider search.
CacheHitAsClaimed ==
    (cur.pc # "idle" /\ ~cur.force_fresh
        /\ Cardinality(FreshCached) >= cur.target_count) => ServedFromCacheOnly

\* C11, amended: for target_count >= 1, whenever the cache store hands the call
\* at least target_count images of the theme outside the recency set, a call
\* that is not force_fresh returns images drawn from those only, with no query
\* expansion and no provider search.
CacheHit ==
    (cur.pc # "idle" /\ ~cur.force_fresh /\ cur.target_count >= 1
        /\ Len(cur.available) >= cur.target_count) => ServedFromCacheOnly

\* C11 happens: a call for one image found exactly one cached image outside a
\* non-empty recency set and returned it
CacheHitServed ==
    /\ cur.pc = "done"
    /\ ~cur.force_fresh
    /\ cur.target_count = 1
    /\ cur.recently_used # {}
    /\ Len(cur.available) = 1
    /\ cur.result = cur.available

\* C12: no id that the recency tracker reported to the call as shown within
\* the lookback window is in the list the call returns, on the cache path, the
\* cache-plus-fetch path, the force_fresh path and the scorer-failure slices.
RecentNeverReturned ==
    cur.pc = "done" =>
        \A i \in 1..Len(cur.result) : cur.result[i].pexels_id \notin cur.recently_used

\* C12 happens: the call returned images although a recently shown image was
\* both cached for its theme and returned by a provider search
RecentWasOffered ==
    /\ cur.pc = "done"
    /\ cur.result # <<>>
    /\ \E p \in cur.recently_used :
          /\ p \in ThemeIds(cur.before, Normalize(cur.theme))
          /\ \E photo \in cur.fetched : photo.id = p

\* C13: the list the call returns never holds two images with the same
\* provider id, however the results of the queries overlap each other and the
\* cached images.
ReturnedIdsDistinct ==
    cur.pc = "done" =>
        \A i, j \in 1..Len(cur.result) :
            cur.result[i].pexels_id = cur.result[j].pexels_id => i = j

\* C13 happens: the call returned two images, one of them cached and also
\* returned by a provider search of the call
OverlapReturned ==
    /\ cur.pc = "done"
    /\ Len(cur.result) = 2
    /\ \E i \in 1..Len(cur.result), photo \in cur.fetched :
          /\ cur.result[i] \in Range(cur.available)
          /\ photo.id = cur.result[i].pexels_id

\* C14: for target_count >= 0, the list the call returns has at most
\* target_count images on every path: cache hit, cache plus fetch,
\* force_fresh, and the positional slices taken when the scorer raises.
AtMostTargetCount ==
    (cur.pc = "done" /\ cur.outcome = "returned") => Len(cur.result) <= cur.target_count

\* C14 happens: the call had more images at hand than the one it was asked
\* for, and returned one
TargetCountCut ==
    /\ cur.pc = "done"
    /\ cur.target_count = 1
    /\ Len(cur.available) + Len(cur.new_images) >= 2
    /\ Len(cur.result) = 1

\* the running call was asked for at least one image and returned none
ReturnedNothing ==
    /\ cur.pc = "done"
    /\ cur.outcome = "returned"
    /\ cur.target_count >= 1
    /\ cur.result = <<>>

\* no provider result of the running call passed the reference filter and is
\* outside the recency set
NoneFetchedUsable == cur.passed \subseteq cur.recently_used

\* C15 as stated: for target_count >= 1 the call returns the empty list only
\* if the theme has no cached image outside the recency set (when not
\* force_fresh) and no provider result passed the filter outside that set.
EmptyOnlyWithoutCandidatesAsClaimed ==
    ReturnedNothing =>
        /\ cur.force_fresh \/ FreshCached = {}
        /\ NoneFetchedUsable

\* C15, amended: for target_count >= 1 the call returns the empty list only
\* if the cache store handed it no image of the theme outside the recency set
\* (none cached, or the store could not be read, or force_fresh) and no
\* provider result passed the filter outside that set.
EmptyOnlyWithoutCandidates ==
    ReturnedNothing =>
        /\ cur.available = <<>>
        /\ NoneFetchedUsable

\* C15 happens: a call for images searched the provider, which returned
\* photos, every usable candidate was recently shown or rejected, and the
\* call returned the empty list
NothingLeftToReturn ==
    /\ ReturnedNothing
    /\ cur.fetched # {}
    /\ cur.recently_used # {}

\* C16: save_theme_results is all-or-nothing: a call that raises part-way
\* leaves theme_queries, curated_images and theme_images as they were before
\* the call, for every later reader of the store.
SaveAllOrNothing ==
    [][ (last'.op = "save" /\ last'.raised) =>
            UNCHANGED << theme_queries, curated_images, theme_images >> ]_vars

\* C17: once ended_at of a practice session is set, no later operation
\* changes its status, ended_at or images_completed, so status leaves
\* in_progress at most once.
SessionEndsOnce ==
    [][ \A i \in 1..Len(practice_sessions) :
            practice_sessions[i].ended_at # NullStamp =>
                /\ practice_sessions'[i].status = practice_sessions[i].status
                /\ practice_sessions'[i].ended_at = practice_sessions[i].ended_at
                /\ practice_sessions'[i].images_completed =
                       practice_sessions[i].images_completed ]_vars

\* C18: session_images holds at most one row per (session_id, provider id)
\* pair after any sequence of add_session_image calls.
OneRowPerSessionImage ==
    \A i, j \in 1..Len(session_images) :
        ( /\ session_images[i].session_id = session_images[j].session_id
          /\ session_images[i].pexels_id = session_images[j].pexels_id ) => i = j

\* the session of a session_images row
SessionOf(row) == practice_sessions[row.session_id]

\* every session that holds the image of the row started when the session
\* of the row did
OnlyInSessionsStartedWith(row) ==
    \A k \in 1..Len(session_images) :
        session_images[k].pexels_id = row.pexels_id =>
            SessionOf(session_images[k]).started_at = SessionOf(row).started_at

\* C19: get_images_shown_recently looks at when a session started and not at
\* its status or at what happened to the image: when an image is returned and
\* is held only by sessions started at one time, every image of every session
\* started at that time is returned too, whatever the status of these
\* sessions and whether their images were reached.
RecencyIgnoresStatus ==
    \A days \in 1..MaxDays :
        \A i, j \in 1..Len(session_images) :
            ( /\ SessionOf(session_images[i]).started_at =
                     SessionOf(session_images[j]).started_at
              /\ OnlyInSessionsStartedWith(session_images[i])
              /\ session_images[i].pexels_id \in get_images_shown_recently(days) )
            => session_images[j].pexels_id \in get_images_shown_recently(days)

\* C19 happens: a completed session and one that is in progress or abandoned
\* started at the same time; an image of the second, which the user never
\* reached and which is in no other session, is returned
UnreachedImageCounted ==
    \E i, j \in 1..Len(session_images) :
        /\ SessionOf(session_images[i]).status = "completed"
        /\ SessionOf(session_images[j]).status # "completed"
        /\ SessionOf(session_images[i]).started_at = SessionOf(session_images[j]).started_at
        /\ session_images[i].pexels_id # session_images[j].pexels_id
        /\ session_images[j].time_spent = None
        /\ session_images[j].pexels_id \in get_images_shown_recently(1)

(***************************************************************************)
(* The worker thread and the GUI thread on the database, statement by      *)
(* statement.  The worker runs save_theme_results on the cache store's     *)
(* connection; the GUI thread runs update_image_usage on that same         *)
(* connection (memory_store is one object with one connection, opened with *)
(* check_same_thread=False) and the feedback calls on the scorer's own     *)
(* connection to the same file.  The tables are what the cache store's     *)
(* connection sees; uncommitted says that it has an open transaction, which *)
(* holds the file's write lock and which the next commit on the connection *)
(* makes durable, whichever thread executed its statements.  cur is the    *)
(* worker's call, gui the GUI thread's.                                    *)
(***************************************************************************)
MaxGuiCalls == 2

IdleSave ==
    [pc |-> "idle", call |-> 0, theme_lower |-> NoTheme, images |-> <<>>,
     position |-> 0, raised |-> FALSE]

\* the theme and the queries of the worker's save
RaceTheme == ThemeStr("hands", TRUE, TRUE)

RaceQueries == <<Query("hand", 4)>>

\* the images of the GUI thread's calls
RaceIds == { 1, 2 }

InitRace ==
    /\ image_theme_scores = Empty
    /\ \E st \in CachedStores :
          /\ theme_queries = st.queries
          /\ curated_images = st.images
          /\ theme_images = st.links
    /\ uncommitted = FALSE
    /\ practice_sessions = <<>>
    /\ session_images = <<>>
    /\ now = 0
    /\ tz = 0
    /\ session_config = InitConfig
    /\ query_cache = Empty
    /\ evaluation_cache = Empty
    /\ cur = IdleSave
    /\ sel = NoSelect
    /\ last = NoCall
    /\ gui = IdleGui

others_race == << tracker_vars, clock_vars, memo_vars, sel, last >>

\* the scorer's connection holds the write lock of the file
ScorerHoldsLock == gui.pc = "feedback_commit"

\* save_theme_results, lines 218-229: the theme_queries upsert, which opens
\* the transaction
SaveQueries ==
    /\ cur.pc = "idle"
    /\ cur.call < MaxCalls
    /\ ~ScorerHoldsLock
    /\ \E images \in SeqsUpTo(SaveImgs, MaxSaved) :
          cur' = [IdleSave EXCEPT !.pc = "image", !.call = cur.call + 1,
                                  !.theme_lower = Normalize(RaceTheme),
                                  !.images = images]
    /\ theme_queries' = Put(theme_queries, Normalize(RaceTheme), JsonDumps(RaceQueries))
    /\ uncommitted' = TRUE
    /\ UNCHANGED << image_theme_scores, curated_images, theme_images, gui, others_race >>

\* lines 232-248: the curated_images upsert of the next image; a dict without
\* a required key raises before the statement, and nothing is rolled back
SaveImage ==
    /\ cur.pc = "image"
    /\ cur.position < Len(cur.images)
    /\ ~ScorerHoldsLock
    /\ LET img == cur.images[cur.position + 1]
       IN IF img.pexels_id = None \/ ~img.ok
          THEN /\ cur' = [cur EXCEPT !.pc = "idle", !.raised = TRUE]
               /\ UNCHANGED << curated_images, uncommitted >>
          ELSE /\ curated_images' = UpsertImage(curated_images, img, cur.theme_lower)
               /\ uncommitted' = TRUE
               /\ cur' = [cur EXCEPT !.pc = "link"]
    /\ UNCHANGED << image_theme_scores, theme_queries, theme_images, gui, others_race >>

\* lines 251-255: the theme_images upsert of that image
SaveLink ==
    /\ cur.pc = "link"
    /\ ~ScorerHoldsLock
    /\ theme_images' = UpsertLink(theme_images, cur.theme_lower,
                                  cur.images[cur.position + 1].pexels_id, cur.position)
    /\ uncommitted' = TRUE
    /\ cur' = [cur EXCEPT !.pc = "image", !.position = @ + 1]
    /\ UNCHANGED << image_theme_scores, theme_queries, curated_images, gui, others_race >>

\* line 257: self.conn.commit()
SaveCommit ==
    /\ cur.pc = "image"
    /\ cur.position = Len(cur.images)
    /\ uncommitted' = FALSE
    /\ cur' = [cur EXCEPT !.pc = "idle"]
    /\ UNCHANGED << image_theme_scores, theme_queries, curated_images, theme_images,
                    gui, others_race >>

\* update_image_usage, lines 300-305: the UPDATE, on the cache store's
\* connection
UsageUpdate ==
    /\ gui.pc = "idle"
    /\ gui.calls < MaxGuiCalls
    /\ \E i \in RaceIds :
          /\ curated_images' = UpdateImageUsage(StoreNow, i).images
          /\ gui' = [IdleGui EXCEPT !.pc = "usage_commit", !.calls = gui.calls + 1,
                                    !.pexels_id = i]
    /\ uncommitted' = TRUE
    /\ UNCHANGED << image_theme_scores, theme_queries, theme_images, cur, others_race >>

\* line 306: self.conn.commit(), which commits all the connection has written
UsageCommit ==
    /\ gui.pc = "usage_commit"
    /\ uncommitted' = FALSE
    /\ gui' = [IdleGui EXCEPT !.calls = gui.calls]
    /\ UNCHANGED << image_theme_scores, theme_queries, curated_images, theme_images,
                    cur, others_race >>

\* record_positive_feedback / record_negative_feedback: the SELECT
FeedbackRead ==
    /\ gui.pc = "idle"
    /\ gui.calls < MaxGuiCalls
    /\ \E i \in RaceIds, kind \in { "positive", "negative" } :
          LET k == <<i, Normalize(RaceTheme)>>
              found == k \in DOMAIN image_theme_scores
          IN gui' = [IdleGui EXCEPT
                        !.pc = "feedback_write", !.calls = gui.calls + 1,
                        !.pexels_id = i, !.theme = RaceTheme, !.kind = kind,
                        !.found = found,
                        !.score = IF found THEN image_theme_scores[k].score ELSE Zero]
    /\ UNCHANGED << image_theme_scores, store_vars, cur, others_race >>

\* the UPDATE or INSERT, which needs the write lock of the file
FeedbackWrite ==
    /\ gui.pc = "feedback_write"
    /\ ~uncommitted
    /\ LET k == <<gui.pexels_id, Normalize(gui.theme)>>
       IN image_theme_scores' =
              IF gui.found
              THEN Put(image_theme_scores, k,
                       [score |-> UpdatedScore(gui.kind, gui.score),
                        times_shown |-> image_theme_scores[k].times_shown + 1])
              ELSE Put(image_theme_scores, k,
                       [score |-> SeedScore(gui.kind), times_shown |-> 1])
    /\ gui' = [gui EXCEPT !.pc = "feedback_commit"]
    /\ UNCHANGED << store_vars, cur, others_race >>

\* the write lock is held by the cache store's connection until the timeout:
\* sqlite3.OperationalError, database is locked
FeedbackLocked ==
    /\ gui.pc = "feedback_write"
    /\ uncommitted
    /\ gui' = [IdleGui EXCEPT !.calls = gui.calls, !.raised = TRUE]
    /\ UNCHANGED << image_theme_scores, store_vars, cur, others_race >>

\* self.conn.commit() of the scorer
FeedbackCommit ==
    /\ gui.pc = "feedback_commit"
    /\ gui' = [IdleGui EXCEPT !.calls = gui.calls]
    /\ UNCHANGED << image_theme_scores, store_vars, cur, others_race >>

NextRace ==
    \/ SaveQueries
    \/ SaveImage
    \/ SaveLink
    \/ SaveCommit
    \/ UsageUpdate
    \/ UsageCommit
    \/ FeedbackRead
    \/ FeedbackWrite
    \/ FeedbackLocked
    \/ FeedbackCommit

SpecRace == InitRace /\ [][NextRace]_vars

\* the worker's save_theme_results has executed statements and will execute
\* no commit for them yet: it is between two statements, or it raised
SavePartWay ==
    \/ cur.pc = "link"
    \/ cur.pc = "image" /\ cur.position < Len(cur.images)
    \/ cur.pc = "idle" /\ cur.raised

\* C20: while save_theme_results on the worker thread interleaves with
\* feedback writes and usage increments of the GUI thread, every state has at
\* most one score row per (image, theme) with its score in bounds, every
\* theme_images row refers to a curated_images row, and nothing of a part-way
\* save_theme_results has been committed.
RaceKeepsStoreInvariants ==
    /\ \A k \in DOMAIN image_theme_scores : InBounds(image_theme_scores[k].score)
    /\ \A link \in DOMAIN theme_images : link[2] \in DOMAIN curated_images
    /\ SavePartWay => uncommitted

\* the ids of the images the running call has at hand
PoolIds ==
    { cur.available[i].pexels_id : i \in 1..Len(cur.available) }
        \cup { cur.new_images[i].pexels_id : i \in 1..Len(cur.new_images) }

\* C21: a provider search that raises does not end the live fetch: when the
\* search loop is over every query of the call has been searched, and every
\* photo that passed the reference filter and is not recently used is in the
\* candidate pool.
FailedSearchSkipped ==
    (cur.pc = "select" \/ (cur.pc = "done" /\ cur.outcome = "returned" /\ cur.queries # <<>>))
        => /\ cur.next = Len(cur.queries) + 1
           /\ (cur.passed \ cur.recently_used) \subseteq PoolIds

\* C21 happens: a search of the call raised, the loop went through all its
\* queries, and a photo of another search is in the pool
SearchedPastFailure ==
    /\ cur.pc = "select"
    /\ cur.some_failed
    /\ ~cur.all_failed
    /\ Len(cur.queries) >= 2
    /\ cur.next = Len(cur.queries) + 1
    /\ cur.new_images # <<>>

\* C22: once the live fetch has collected SoftCap new candidates, no provider
\* search is issued for the queries that remain.
SoftCapStopsSearch ==
    [][ (cur.pc = "search" /\ Len(cur.new_images) >= SoftCap) =>
            cur'.next = cur.next ]_vars

\* C23: after a call that is not force_fresh, collected a new candidate and
\* reached the store with its save, get_cached_theme(theme) is found, its
\* queries are the queries of the call, and its images include every new
\* candidate and every image cached for the theme before the call.
CuratePersists ==
    (cur.pc = "done" /\ cur.saved) =>
        \A r \in GetCachedTheme(StoreNow, cur.theme) :
            /\ r.found
            /\ r.queries = cur.queries
            /\ \A p \in { cur.new_images[i].pexels_id : i \in 1..Len(cur.new_images) }
                           \cup ThemeIds(cur.before, Normalize(cur.theme)) :
                  \E i \in 1..Len(r.images) : r.images[i].pexels_id = p

\* C23 happens: a call saved two new candidates for a theme that had cached
\* images before
SavedOverCachedTheme ==
    /\ cur.pc = "done"
    /\ cur.saved
    /\ Len(cur.new_images) = 2
    /\ ThemeIds(cur.before, Normalize(cur.theme)) # {}

\* C24: save_theme_results never changes times_used or last_used of an image
\* that already exists in curated_images; the only call that changes them is
\* update_image_usage.
SaveKeepsUsage ==
    [][ \A p \in DOMAIN curated_images :
           (\/ curated_images'[p].times_used # curated_images[p].times_used
            \/ curated_images'[p].last_used # curated_images[p].last_used)
               => last'.op = "usage" ]_vars

\* C24 happens: the save that has just committed wrote an image that had been
\* used before, for a theme it was not linked to until then
UsedImageResaved ==
    /\ last.op = "save"
    /\ ~last.raised
    /\ \E p \in last.ids :
          /\ curated_images[p].times_used > 0
          /\ curated_images[p].last_used # NullStamp
          /\ \A t \in NormThemes : <<t, p>> \in DOMAIN theme_images

\* C25: in every reachable store state, every theme that has at least one
\* cached image has a query record whose query list is non-empty.
CachedThemeHasQueries ==
    \A t \in NormThemes :
        ThemeIds(StoreNow, t) # {} =>
            /\ t \in DOMAIN theme_queries
            /\ JsonLoads(theme_queries[t]) # <<>>

\* theme strings handed to _expand_theme: those of the model, "" and "  "
ExpandThemes == RawThemes \cup { ThemeStr("", FALSE, FALSE), ThemeStr("", FALSE, TRUE) }

\* C26: _expand_theme returns a list of at least one query for every theme
\* string, the empty and the blank one included, whatever the query generator
\* does (it raises, or answers with no list, an empty list, one element, or
\* fewer than two usable strings) and whatever the query cache holds.
ExpandNeverEmpty ==
    \A t \in ExpandThemes, answer \in GeneratorAnswers, unavailable \in BOOLEAN :
        Len(expand_theme(query_cache, t, answer, unavailable).queries) >= 1

\* C26 happens: the generator's answer for the theme of the call had fewer
\* than two usable strings, and the call searches with the theme itself
ExpandFellBack ==
    /\ cur.pc = "search"
    /\ ~cur.force_fresh
    /\ Normalize(cur.theme) \in DOMAIN query_cache
    /\ Len(query_cache[Normalize(cur.theme)]) < 2
    /\ cur.queries = <<ThemeAsQuery(Normalize(cur.theme))>>

\* C27: when the generator is asked, generate_smart_queries returns and caches
\* its output only if the output holds at least 2 non-empty strings, each cut
\* to at most 60 characters; in every other case it returns [theme] and
\* leaves the query cache as it was.
GeneratorOutputAccepted ==
    \A t \in CurateThemes, answer \in GeneratorAnswers, use_cache \in BOOLEAN :
        LET g == generate_smart_queries(query_cache, t, use_cache, answer)
            usable == answer.kind = "list" /\ Len(SelectSeq(answer.items, Truthy)) >= 2
        IN GeneratorAsked(query_cache, t, use_cache) =>
              IF usable
              THEN /\ Len(g.queries) >= 2
                   /\ \A i \in 1..Len(g.queries) :
                         Truthy(g.queries[i]) /\ g.queries[i].len <= 60
                   /\ Normalize(t) \in DOMAIN g.memo
                   /\ g.memo[Normalize(t)] = g.queries
              ELSE /\ g.queries = <<ThemeAsQuery(t)>>
                   /\ g.memo = query_cache

\* C28: a force_fresh curation neither reads nor writes the query cache: no
\* step of a force_fresh call changes it, so a later cache-enabled generation
\* for the theme returns what it would have returned without the call.
ForceFreshKeepsQueryCache ==
    [][ (cur.pc = "queries" /\ cur.force_fresh) => query_cache' = query_cache ]_vars

\* descriptions handed to is_good_reference: those the provider of the model
\* returns, and one that continues Plain past its 100th character with
\* "logo"
Descriptions == { Plain, NoAlt, Logo, Alt("hand", "logo") }

\* C29: is_good_reference returns false for every description that contains
\* a word of the rejection vocabulary, in every state of the evaluation
\* cache.
KeywordAlwaysRejected ==
    \A a \in Descriptions, t \in CurateThemes, answer \in EvaluatorAnswers :
        HasBadKeyword(a) => ~is_good_reference(evaluation_cache, a, t, answer).is_good

\* C30: record_positive_feedback on a pair with stored score s sets the score
\* to min(MAX_SCORE, s * POSITIVE_BOOST) and adds exactly 1 to times_shown; on
\* a pair without row it inserts score POSITIVE_BOOST and times_shown 1.
\* record_negative_feedback does the same with max(MIN_SCORE, s *
\* NEGATIVE_DECAY) and seed NEGATIVE_DECAY.  get_score returns the stored
\* score, or 1.0 when there is no row.
FeedbackArithmetic ==
    /\ [](\A i \in Ids, t \in RawThemes :
             get_score(i, t) =
                 IF <<i, Normalize(t)>> \in DOMAIN image_theme_scores
                 THEN image_theme_scores[<<i, Normalize(t)>>].score
                 ELSE <<1, 1>>)
    /\ [][ \A a \in FeedbackInputs :
             LET k == <<a[1], Normalize(a[2])>>
                 had == k \in DOMAIN image_theme_scores
                 old == image_theme_scores[k]
                 new == image_theme_scores'[k]
             IN /\ record_positive_feedback(a[1], a[2]) =>
                      IF had
                      THEN /\ new.score = RMin(MAX_SCORE, RMul(old.score, POSITIVE_FEEDBACK_BOOST))
                           /\ new.times_shown = old.times_shown + 1
                      ELSE new = [score |-> POSITIVE_FEEDBACK_BOOST, times_shown |-> 1]
                /\ record_negative_feedback(a[1], a[2]) =>
                      IF had
                      THEN /\ new.score = RMax(MIN_SCORE, RMul(old.score, NEGATIVE_FEEDBACK_DECAY))
                           /\ new.times_shown = old.times_shown + 1
                      ELSE new = [score |-> NEGATIVE_FEEDBACK_DECAY, times_shown |-> 1]
       ]_vars

\* C30 happens: one pair has been boosted onto the cap by four positive
\* feedbacks, another holds the seed of a first negative feedback
CappedAndSeeded ==
    \E k, j \in DOMAIN image_theme_scores :
        /\ image_theme_scores[k].score = MAX_SCORE
        /\ image_theme_scores[k].times_shown = 4
        /\ image_theme_scores[j].score = NEGATIVE_FEEDBACK_DECAY
        /\ image_theme_scores[j].times_shown = 1

\* C31: record_positive_feedback, record_negative_feedback and record_shown
\* on (id, theme) leave the score and times_shown of every other pair as they
\* were, themes being compared after trim and lower-case, and change no row
\* of curated_images, theme_images, practice_sessions or session_images.
FeedbackScoped ==
    [][ \A a \in FeedbackInputs :
           (\/ record_positive_feedback(a[1], a[2])
            \/ record_negative_feedback(a[1], a[2])
            \/ record_shown(a[1], a[2])) =>
               /\ DOMAIN image_theme_scores' \subseteq
                      DOMAIN image_theme_scores \cup { <<a[1], Normalize(a[2])>> }
               /\ \A k \in DOMAIN image_theme_scores :
                      k # <<a[1], Normalize(a[2])>> =>
                          image_theme_scores'[k] = image_theme_scores[k]
               /\ UNCHANGED << curated_images, theme_images, practice_sessions,
                               session_images >>
      ]_vars

\* C31 happens: image 1 was decayed under "hands", in both spellings of the
\* theme, and boosted under "robots"
ScoresPerTheme ==
    LET hands == ThemeStr("hands", FALSE, FALSE)
        robots == ThemeStr("robots", FALSE, FALSE)
    IN /\ {<<1, hands>>, <<1, robots>>} \subseteq DOMAIN image_theme_scores
       /\ image_theme_scores[<<1, hands>>] =
              [score |-> RMul(NEGATIVE_FEEDBACK_DECAY, NEGATIVE_FEEDBACK_DECAY),
               times_shown |-> 2]
       /\ image_theme_scores[<<1, robots>>] =
              [score |-> POSITIVE_FEEDBACK_BOOST, times_shown |-> 1]

\* C32: for each non-excluded candidate select_images uses the weight
\* max(MIN_SCORE, s + b1 + b2): s is the stored score of (id, theme) or 1.0
\* without row, b1 is FRESHNESS_BONUS when the pair has no row or
\* times_shown 0, b2 is FRESHNESS_BONUS when the candidate's times_used is 0
\* or absent.
WeightFormula ==
    LET cands == Candidates(sel.available, sel.exclude_ids)
    IN \A i \in 1..Len(cands) :
          LET k == <<ImgId(cands[i]), Normalize(sel.theme)>>
              s == get_score(ImgId(cands[i]), sel.theme)
              b1 == IF k \notin DOMAIN image_theme_scores
                       \/ image_theme_scores[k].times_shown = 0
                    THEN FRESHNESS_BONUS ELSE Zero
              b2 == IF cands[i].times_used \in {0, None}
                    THEN FRESHNESS_BONUS ELSE Zero
          IN Weights(cands, sel.theme)[i] = RMax(MIN_SCORE, RAdd(RAdd(s, b1), b2))

\* C32 happens: the call weighed a candidate with a score row and
\* times_used 1 (no bonus), one with a row and no times_used (one bonus) and
\* one without row (both)
WeighedAllCases ==
    /\ sel.pc = "done"
    /\ sel.exclude_ids = {}
    /\ Len(sel.available) = 3
    /\ Len(sel.result) = 3
    /\ <<2, Normalize(sel.theme)>> \in DOMAIN image_theme_scores
    /\ LET ws == Weights(sel.available, sel.theme)
       IN /\ ws[1] = image_theme_scores[<<2, Normalize(sel.theme)>>].score
          /\ ws[2] = RAdd(image_theme_scores[<<2, Normalize(sel.theme)>>].score,
                          FRESHNESS_BONUS)
          /\ ws[3] = RAdd(RAdd(DEFAULT_SCORE, FRESHNESS_BONUS), FRESHNESS_BONUS)

\* a step of the selection loop that drew r
Drew == sel.pc = "draw" /\ sel'.pc = "draw" /\ Len(sel'.result) = Len(sel.result) + 1

\* C33 as stated: in each draw, for every draw value r in [0, total), the
\* selected candidate is the first one, in pool order, whose cumulative weight
\* exceeds r; it and its weight are removed from the pool, and the order of
\* the remaining candidates is unchanged.
DrawPicksFirstExceeding ==
    [][ (Drew /\ ~sel'.uniform /\ RLt(sel'.r, RSum(sel.remaining_weights))) =>
           LET ws == sel.remaining_weights
               idx == sel'.idx
           IN /\ RLt(sel'.r, Cumulative(ws, idx))
              /\ \A i \in 1..(idx - 1) : ~RLt(sel'.r, Cumulative(ws, i))
              /\ sel'.result = Append(sel.result, sel.remaining_candidates[idx])
              /\ sel'.remaining_candidates = Pop(sel.remaining_candidates, idx)
              /\ sel'.remaining_weights = Pop(ws, idx) ]_vars

\* C33 amended: in each draw, for every draw value r in [0, total], the
\* selected candidate is the first one, in pool order, whose cumulative weight
\* is at least r; it and its weight are removed from the pool, and the order
\* of the remaining candidates is unchanged.
DrawPicksFirstReaching ==
    [][ (Drew /\ ~sel'.uniform) =>
           LET ws == sel.remaining_weights
               idx == sel'.idx
           IN /\ RLe(sel'.r, Cumulative(ws, idx))
              /\ \A i \in 1..(idx - 1) : ~RLe(sel'.r, Cumulative(ws, i))
              /\ sel'.result = Append(sel.result, sel.remaining_candidates[idx])
              /\ sel'.remaining_candidates = Pop(sel.remaining_candidates, idx)
              /\ sel'.remaining_weights = Pop(ws, idx) ]_vars

\* C33 happens: the second draw fell on the cumulative weight of the first of
\* the two candidates left and selected it, after the first draw had taken
\* the middle one of three
DrewOnBoundary ==
    /\ sel.pc = "draw"
    /\ Len(sel.result) = 2
    /\ Len(sel.remaining_candidates) = 1
    /\ LET cands == Candidates(sel.available, sel.exclude_ids)
       IN /\ Len(cands) = 3
          /\ sel.result = <<cands[2], cands[1]>>
          /\ sel.remaining_candidates = <<cands[3]>>
          /\ sel.r = Weight(cands[1], sel.theme)
          /\ sel.idx = 1

\* C35: in select_images every weight is at least MIN_SCORE, so the total
\* weight of a non-empty remaining pool is strictly positive and the uniform
\* fallback for a total weight <= 0 is never taken.
TotalWeightPositive ==
    /\ ~sel.uniform
    /\ (sel.pc = "draw" /\ sel.remaining_candidates # <<>>) =>
          /\ Len(sel.remaining_weights) = Len(sel.remaining_candidates)
          /\ \A i \in 1..Len(sel.remaining_weights) :
                RLe(MIN_SCORE, sel.remaining_weights[i])
          /\ RLt(Zero, RSum(sel.remaining_weights))
          /\ \A c \in DrawChoices(sel.remaining_weights) : ~c.uniform

\* C35 happens: two draws have left a pool of one candidate, the one whose
\* score was decayed
DecayedCandidateLeft ==
    /\ sel.pc = "draw"
    /\ sel.rounds = 1
    /\ Len(sel.result) = 2
    /\ sel.remaining_weights = <<RAdd(NEGATIVE_FEEDBACK_DECAY, FRESHNESS_BONUS)>>

\* a step in which curate_reference_photos returns a list
CurateReturned == cur'.pc = "done" /\ cur'.outcome = "returned" /\ cur' # cur

\* C34 as stated: after curate_reference_photos returns the list L, on every
\* return path, get_current_config()['images'] is exactly L, in the same
\* order.
PoolIsReturnedList ==
    [][ CurateReturned => get_current_config'.images = cur'.result ]_vars

\* C34 amended: after curate_reference_photos returns the list L, on every
\* return path, get_current_config()['images'] is exactly the first
\* MAX_IMAGES items of L, in the same order.
PoolIsReturnedListCut ==
    [][ CurateReturned =>
           /\ Len(get_current_config'.images) = Min(Len(cur'.result), MAX_IMAGES)
           /\ \A i \in 1..Len(get_current_config'.images) :
                 get_current_config'.images[i] = cur'.result[i] ]_vars

\* C34 happens: the call returned one image more than a session holds
LongListReturned ==
    /\ last.op = "curate"
    /\ cur.pc = "done"
    /\ Len(cur.result) = MAX_IMAGES + 1
    /\ Len(session_config.images) = MAX_IMAGES

\* C36: after any sequence of set_images_for_session, reset_session_state,
\* set_session_duration, set_image_count, prepare_session_preview and
\* start_practice_session calls, session_started implies preview_ready and
\* preview_ready implies a non-empty image list; start_practice_session
\* succeeds only in a state where both hold.
StartedOnlyAfterPreview ==
    /\ [](/\ session_config.session_started => session_config.preview_ready
          /\ session_config.preview_ready => session_config.images # <<>>)
    /\ [][ (last'.op = "start" /\ ~last'.raised) =>
             /\ session_config.preview_ready
             /\ session_config.images # <<>>
             /\ session_config'.session_started ]_vars

\* C36 happens: a session of one image was started after the image count
\* had trimmed a longer list and the preview had been shown
StartedTrimmedSession ==
    /\ last.op = "start"
    /\ ~last.raised
    /\ session_config.session_started
    /\ session_config.image_count = 1
    /\ session_config.images = <<Img(1, None, Plain, 0, TRUE)>>
    /\ cur.pc = "done"
    /\ Len(cur.result) = 2

\* a step of the running session: a slot of the widget other than start_session
WidgetStep == gui.view = "practice" /\ gui'.session_id = gui.session_id

\* C37: in a session with N >= 1 photos current_index stays within 0..N-1
\* whatever ticks, skips, previous, pause and feedback inputs arrive; a step
\* rewrites only session_images rows of the photo at current_index; Previous
\* at index 0 and Skip at index N-1 leave the index where it is.
IndexInRange ==
    /\ [](gui.photos # <<>> => gui.current_index \in 0..(Len(gui.photos) - 1))
    /\ [][ WidgetStep =>
             /\ Len(session_images') = Len(session_images)
             /\ \A i \in 1..Len(session_images) :
                   session_images'[i] # session_images[i] =>
                       /\ session_images[i].session_id = gui.session_id
                       /\ session_images[i].pexels_id =
                              PhotoId(gui.photos[gui.current_index + 1])
             /\ (last'.op = "prev" /\ gui.current_index = 0) =>
                    gui'.current_index = 0
             /\ (last'.op = "next" /\ gui.current_index = Len(gui.photos) - 1) =>
                    gui'.current_index = gui.current_index ]_vars

\* C37 witness: Previous was pressed on the first of two photos, Skip on the
\* last one, and the rows of both photos were written
PreviousAtFirstSkipAtLast ==
    /\ last.op = "next"
    /\ gui.status = "completed"
    /\ gui.backs = 1
    /\ gui.visited = <<0, 1>>
    /\ gui.current_index = 1
    /\ Len(session_images) = 2
    /\ \A i \in 1..2 : session_images[i].time_spent # None
\* C38: the images_completed value complete_session writes, and the one the
\* completion signal carries, never exceeds the total_images of the session.
CompletedWithinTotal ==
    /\ \A s \in 1..Len(practice_sessions) :
          practice_sessions[s].images_completed <= practice_sessions[s].total_images
    /\ gui.signalled # None => gui.signalled <= Len(gui.photos)

\* C39: when the session is finalized, every photo that got negative feedback
\* and that the user did not come back to has skipped = 1 in its
\* session_images row, and record_negative_feedback ran once for it.
DislikedStaysSkipped ==
    gui.status # "none" =>
        \A p \in gui.disliked \ gui.returned :
            /\ gui.decays[p + 1] = 1
            /\ \A i \in 1..Len(session_images) :
                  (/\ session_images[i].session_id = gui.session_id
                   /\ session_images[i].position = p) =>
                      session_images[i].skipped = 1

\* the session was finalized as completed after showing the indexes 0..N-1,
\* each once and in order
CompletedInOrder ==
    /\ gui.status = "completed"
    /\ gui.visited = [i \in 1..Len(gui.photos) |-> i - 1]

\* a tick that arrives while the session is paused changes neither
\* time_remaining nor current_index
PausedTickChangesNothing ==
    (last'.op = "tick" /\ gui.is_paused) =>
        /\ gui'.time_remaining = gui.time_remaining
        /\ gui'.current_index = gui.current_index

\* C40 as stated: with the timer firing under weak fairness, a session that is
\* never paused, or is always eventually resumed, and gets no Previous input
\* is eventually finalized as completed, having shown the indexes 0..N-1 in
\* order; a tick of a paused session changes neither time_remaining nor
\* current_index.
CompletesWhenAlwaysResumed ==
    /\ (/\ <>(gui.sessions > 0)
        /\ []<>(~gui.is_paused)
        /\ [](gui.backs = 0)) => <>CompletedInOrder
    /\ [][PausedTickChangesNothing]_vars

\* C40: with the timer firing under weak fairness, a session that is never
\* paused, or is eventually resumed for good, that gets no Previous input and
\* that the user does not end with End Session is eventually finalized as
\* completed, having shown the indexes 0..N-1 in order; a tick of a paused
\* session changes neither time_remaining nor current_index.
CompletesWhenLeftRunning ==
    /\ (/\ <>(gui.sessions > 0)
        /\ <>[](~gui.is_paused)
        /\ [](gui.backs = 0)
        /\ [](gui.status # "abandoned")) => <>CompletedInOrder
    /\ [][PausedTickChangesNothing]_vars

\* C40 witness: a session of two photos and two seconds each that was paused
\* for a tick on its way ran out on the timer
RanOutOnTimer ==
    /\ last.op = "tick"
    /\ CompletedInOrder
    /\ Len(gui.photos) = 2
    /\ gui.duration_seconds = 2
    /\ gui.backs = 0
    /\ ~gui.is_paused
    /\ gui.time_remaining = 0

====
